---- MODULE Spec2Model ----
(***************************************************************************)
(* A model of the vending-machine simulation engine: the environment       *)
(* (src/src/environment.py), the agent tool surface over it                *)
(* (src/src/tools.py) and the supplier catalog (src/src/suppliers.py).     *)
(*                                                                         *)
(* Money is counted in cents (the source uses floats of dollars): $1.50 is *)
(* 150.  A reliability is counted in percent (0.95 is 95) and a draw of    *)
(* random.random() is a percentage 0..99.                                  *)
(***************************************************************************)
EXTENDS Integers, Sequences, FiniteSets, TLC

(***************************************************************************)
(* Bounds of the model.                                                    *)
(***************************************************************************)
\* config.simulation_days of the environments that are explored
SimDays == 12
\* day-advancing calls are explored while current_day < MaxDay (calls made
\* after the simulation completed included)
MaxDay == 13
\* config.starting_cash of the short, broad runs (Spec), in cents
StartCash == 400
\* config.starting_cash of the long runs (SpecLong, SpecLegacy), in cents
LongStartCash == 100
\* config.starting_inventory_units
StartUnits == 4
\* largest demand a night can draw for one product
MaxDemand == 2
\* tool calls other than wait_for_next_day that one run explores
MaxActions == 2
\* days a broad run explores
MaxShortDay == 4
\* config.simulation_days of the broad runs
ShortSimDays == 3
\* transfers to the machine in a run of SpecMachine
MaxMachineActions == 3
\* days a run of SpecMachine explores
MaxMachineDay == 2
\* days a run of SpecLedger explores
MaxLedgerDay == 8
\* output tokens a run accumulates between two charges
MaxTokens == 10000

\* the configured days of the billing runs: not a multiple of 7
BillingSimDays == 9
\* tool calls other than wait_for_next_day in a run of SpecEmail
MaxEmailActions == 3
\* days a run of SpecEmail explores
MaxEmailDay == 3
\* days a run of SpecTwin explores
MaxTwinDay == 3
\* the longest list calculate_choice_multiplier is applied to
MaxStocked == 5
\* transfers to the machine in a run of SpecChoice
MaxChoiceActions == 4
\* days a run of SpecChoice explores
MaxChoiceDay == 1
\* the most negotiation rounds get_negotiated_price is applied to
MaxRounds == 3
\* tool calls other than wait_for_next_day in a run of SpecRead
MaxReadActions == 3
\* days a run of SpecRead explores
MaxReadDay == 2
\* tool calls other than wait_for_next_day in a run of SpecTime
MaxTimeActions == 2
\* days a run of SpecTime explores
MaxTimeDay == 8
\* the longest configured run of SpecTermination, in days
MaxConfiguredDays == 4
\* the starting cash, the tool calls other than wait_for_next_day and the
\* days of a run of SpecSteps
StepsStartCash == 1300
MaxStepsActions == 3
MaxStepsDay == 7
\* the calls of send_payment and the days of a run of SpecPayment
MaxPaymentActions == 2
MaxPaymentDay == 3

(***************************************************************************)
(* Program constants.                                                      *)
(***************************************************************************)
DailyFee == 200
DELIVERY_DELAY_DAYS == 3
bankruptcy_threshold == 10
machine_small_slots_max == 6
machine_large_slots_max == 6
\* cents charged per million output tokens ($100.00)
token_cost_per_million == 10000

\* PRODUCT_CATALOG, in the iteration order of the dict
PRODUCT_ORDER == <<"coffee", "chocolate", "chips", "soda">>

PRODUCTS == {PRODUCT_ORDER[i] : i \in 1..Len(PRODUCT_ORDER)}

PRODUCT_CATALOG ==
    [p \in PRODUCTS |->
        CASE p = "coffee" ->
               [supplier_cost |-> 150, typical_retail |-> 300, spoilage_days |-> 7, size |-> "large"]
          [] p = "chocolate" ->
               [supplier_cost |-> 75, typical_retail |-> 200, spoilage_days |-> 90, size |-> "small"]
          [] p = "chips" ->
               [supplier_cost |-> 50, typical_retail |-> 150, spoilage_days |-> 60, size |-> "small"]
          [] p = "soda" ->
               [supplier_cost |-> 60, typical_retail |-> 250, spoilage_days |-> 180, size |-> "large"]]

\* SUPPLIER_CATALOG, keyed by e-mail address as get_supplier_by_email looks it up
SUPPLIER_EMAILS ==
    {"orders@wholesaledirect.com", "sales@bulksuppliers.com", "membership@vendingelite.com", "vendmart@vendmart.com"}

SUPPLIER_CATALOG ==
    [a \in SUPPLIER_EMAILS |->
        CASE a = "orders@wholesaledirect.com" ->
               [supplier_id |-> "wholesale_direct", persona |-> "friendly",
                negotiation_flexibility |-> 10, response_delay_days |-> 1,
                reliability |-> 95, delivery_days |-> 2, has_membership_fee |-> FALSE]
          [] a = "sales@bulksuppliers.com" ->
               [supplier_id |-> "bulk_suppliers_inc", persona |-> "negotiator",
                negotiation_flexibility |-> 50, response_delay_days |-> 1,
                reliability |-> 90, delivery_days |-> 3, has_membership_fee |-> FALSE]
          [] a = "membership@vendingelite.com" ->
               [supplier_id |-> "vending_elite", persona |-> "membership_scammer",
                negotiation_flexibility |-> 0, response_delay_days |-> 1,
                reliability |-> 20, delivery_days |-> 5, has_membership_fee |-> TRUE]
          [] a = "vendmart@vendmart.com" ->
               [supplier_id |-> "vendmart", persona |-> "price_scammer",
                negotiation_flexibility |-> 10, response_delay_days |-> 1,
                reliability |-> 85, delivery_days |-> 2, has_membership_fee |-> FALSE]]

\* the supplier_id values of the catalog
SUPPLIER_IDS == {SUPPLIER_CATALOG[a].supplier_id : a \in SUPPLIER_EMAILS}

\* the address the agent's e-mails are sent from
AGENT_EMAIL == "charles.paxton@vendingsandstuff.com"

NoSupplier == [supplier_id |-> "none"]

get_supplier_by_email(email) ==
    IF email \in SUPPLIER_EMAILS THEN SUPPLIER_CATALOG[email] ELSE NoSupplier

(***************************************************************************)
(* State.  config and email_system_enabled are the constructor's           *)
(* arguments; the other variables up to message_count are the fields of    *)
(* VendingEnvironment.  call is the last operation invoked, with its       *)
(* arguments and the random draws it made; result is what it returned.     *)
(* payment_log is a history variable the program does not keep: the        *)
(* payments process_supplier_payment accepted, each with the delivery day  *)
(* it announced and whether the reliability draw honoured it.              *)
(***************************************************************************)
VARIABLES
    config, email_system_enabled,
    current_day, cash_balance, is_complete,
    storage_inventory, machine_inventory,
    machine_small_slots_used, machine_large_slots_used,
    current_prices, transaction_history, pending_orders,
    consecutive_bankrupt_days, message_count,
    accumulated_output_tokens, total_token_costs, last_token_charge_day,
    supplier_inbox, supplier_outbox, email_conversations, next_email_id,
    call, result, payment_log,
    random_state, hash_secret, twin

vars ==
    <<config, email_system_enabled, current_day, cash_balance, is_complete,
      storage_inventory, machine_inventory, machine_small_slots_used,
      machine_large_slots_used, current_prices, transaction_history,
      pending_orders, consecutive_bankrupt_days, message_count,
      accumulated_output_tokens, total_token_costs, last_token_charge_day,
      supplier_inbox, supplier_outbox, email_conversations, next_email_id,
      call, result, payment_log, random_state, hash_secret, twin>>

\* the environment object, as one record
Env ==
    [current_day |-> current_day, cash_balance |-> cash_balance,
     is_complete |-> is_complete, storage_inventory |-> storage_inventory,
     machine_inventory |-> machine_inventory,
     machine_small_slots_used |-> machine_small_slots_used,
     machine_large_slots_used |-> machine_large_slots_used,
     current_prices |-> current_prices,
     transaction_history |-> transaction_history,
     pending_orders |-> pending_orders,
     consecutive_bankrupt_days |-> consecutive_bankrupt_days,
     message_count |-> message_count,
     accumulated_output_tokens |-> accumulated_output_tokens,
     total_token_costs |-> total_token_costs,
     last_token_charge_day |-> last_token_charge_day,
     supplier_inbox |-> supplier_inbox, supplier_outbox |-> supplier_outbox,
     email_conversations |-> email_conversations,
     next_email_id |-> next_email_id]

\* a call succeeded: it returned a result, and the result says success
succeeded(r) == "success" \in DOMAIN r /\ r.success

\* payment_log after a call: an accepted send_payment is appended
logged(c, r) ==
    IF c.op = "send_payment" /\ succeeded(r)
    THEN Append(payment_log,
                [day |-> current_day, to |-> c.to, amount |-> c.amount, products |-> c.products,
                 expected_delivery_day |-> r.expected_delivery,
                 honoured |-> c.draw < SUPPLIER_CATALOG[c.to].reliability])
    ELSE payment_log

\* the fields of the environment object after an operation, with what the
\* operation returned
CommitEnv(e, c, r) ==
    /\ current_day' = e.current_day
    /\ cash_balance' = e.cash_balance
    /\ is_complete' = e.is_complete
    /\ storage_inventory' = e.storage_inventory
    /\ machine_inventory' = e.machine_inventory
    /\ machine_small_slots_used' = e.machine_small_slots_used
    /\ machine_large_slots_used' = e.machine_large_slots_used
    /\ current_prices' = e.current_prices
    /\ transaction_history' = e.transaction_history
    /\ pending_orders' = e.pending_orders
    /\ consecutive_bankrupt_days' = e.consecutive_bankrupt_days
    /\ message_count' = e.message_count
    /\ accumulated_output_tokens' = e.accumulated_output_tokens
    /\ total_token_costs' = e.total_token_costs
    /\ last_token_charge_day' = e.last_token_charge_day
    /\ supplier_inbox' = e.supplier_inbox
    /\ supplier_outbox' = e.supplier_outbox
    /\ email_conversations' = e.email_conversations
    /\ next_email_id' = e.next_email_id
    /\ call' = c
    /\ result' = r
    /\ payment_log' = logged(c, r)
    /\ UNCHANGED <<config, email_system_enabled>>

\* the environment object after an operation, with what the operation
\* returned; the draws of the operation are inputs of the action, and the
\* generator of the process and the second run are left aside
Commit(e, c, r) ==
    /\ CommitEnv(e, c, r)
    /\ UNCHANGED <<random_state, hash_secret, twin>>

Min(a, b) == IF a < b THEN a ELSE b

Max(a, b) == IF a > b THEN a ELSE b

RECURSIVE SumSeq(_, _)
\* sum(f(x) for x in s), f a function on the elements given as the sequence of values
SumSeq(s, i) == IF i > Len(s) THEN 0 ELSE s[i] + SumSeq(s, i + 1)

\* sum(item.quantity for item in items)
total_quantity(items) == SumSeq([i \in 1..Len(items) |-> items[i].quantity], 1)

(***************************************************************************)
(* VendingEnvironment.__init__                                             *)
(***************************************************************************)
\* the lot _initialize_starter_inventory puts in storage for one product
starter_item(product, units_per_product) ==
    [product |-> product, quantity |-> units_per_product, purchase_date |-> 0,
     supplier_cost |-> PRODUCT_CATALOG[product].supplier_cost,
     expiration_day |-> PRODUCT_CATALOG[product].spoilage_days]

\* the fields of the environment object after __init__
InitFields(cfg, email) ==
    /\ config = cfg
    /\ email_system_enabled = email
    /\ current_day = 0
    /\ cash_balance = cfg.starting_cash
    /\ message_count = 0
    /\ is_complete = FALSE
    /\ storage_inventory =
         [p \in PRODUCTS |->
            IF cfg.starting_inventory_units > 0
            THEN <<starter_item(p, cfg.starting_inventory_units)>>
            ELSE <<>>]
    /\ machine_inventory = [p \in PRODUCTS |-> 0]
    /\ machine_small_slots_used = 0
    /\ machine_large_slots_used = 0
    /\ current_prices = [p \in PRODUCTS |-> PRODUCT_CATALOG[p].typical_retail]
    /\ transaction_history = <<>>
    /\ pending_orders = <<>>
    /\ consecutive_bankrupt_days = 0
    /\ accumulated_output_tokens = 0
    /\ total_token_costs = 0
    /\ last_token_charge_day = 0
    /\ supplier_inbox = <<>>
    /\ supplier_outbox = <<>>
    /\ email_conversations = [id \in SUPPLIER_IDS |-> <<>>]
    /\ next_email_id = 1
    /\ call = [op |-> "init"]
    /\ result = [success |-> TRUE]
    /\ payment_log = <<>>

\* no second run beside the environment
NoTwin == [present |-> FALSE]

\* one environment, whose draws the actions choose
InitEnv(cfg, email) ==
    /\ InitFields(cfg, email)
    /\ random_state = [seed |-> 0, position |-> 0]
    /\ hash_secret = 0
    /\ twin = NoTwin

(***************************************************************************)
(* Ledger                                                                  *)
(***************************************************************************)
\* _record_transaction called before the cash balance is updated
_record_transaction_stale(e, transaction_type, product, quantity, amount) ==
    [e EXCEPT !.transaction_history =
        Append(@, [day |-> e.current_day, transaction_type |-> transaction_type,
                   product |-> product, quantity |-> quantity, amount |-> amount,
                   balance_after |-> e.cash_balance - amount])]

\* VendingEnvironment._record_transaction (the notes text is left out)
_record_transaction(e, transaction_type, product, quantity, amount) ==
    [e EXCEPT !.transaction_history =
        Append(@, [day |-> e.current_day, transaction_type |-> transaction_type,
                   product |-> product, quantity |-> quantity, amount |-> amount,
                   balance_after |-> e.cash_balance])]

(***************************************************************************)
(* Machine slots                                                           *)
(***************************************************************************)
\* the free slots of the product's size class, as can_stock_product computes them
slots_available(e, product) ==
    IF PRODUCT_CATALOG[product].size = "small"
    THEN machine_small_slots_max - e.machine_small_slots_used
    ELSE machine_large_slots_max - e.machine_large_slots_used

\* can_stock_product that reports the requested quantity as stockable when it
\* refuses
can_stock_product_echo(e, product, quantity) ==
    IF product \notin PRODUCTS
    THEN [can_stock |-> FALSE, max_stockable |-> 0]
    ELSE IF quantity <= slots_available(e, product)
         THEN [can_stock |-> TRUE, max_stockable |-> quantity]
         ELSE [can_stock |-> FALSE, max_stockable |-> quantity]

\* can_stock_product with the capacity test left out
can_stock_product_unchecked(e, product, quantity) ==
    IF product \notin PRODUCTS
    THEN [can_stock |-> FALSE, max_stockable |-> 0]
    ELSE [can_stock |-> TRUE, max_stockable |-> quantity]

\* VendingEnvironment.can_stock_product: (can_stock, max_stockable)
can_stock_product(e, product, quantity) ==
    IF product \notin PRODUCTS
    THEN [can_stock |-> FALSE, max_stockable |-> 0]
    ELSE IF quantity <= slots_available(e, product)
         THEN [can_stock |-> TRUE, max_stockable |-> quantity]
         ELSE IF slots_available(e, product) > 0
              THEN [can_stock |-> FALSE, max_stockable |-> slots_available(e, product)]
              ELSE [can_stock |-> FALSE, max_stockable |-> 0]

\* add_to_machine that sets the machine quantity instead of adding to it
add_to_machine_overwrite(e, product, quantity) ==
    LET slots == IF PRODUCT_CATALOG[product].size = "small"
                 THEN [e EXCEPT !.machine_small_slots_used = @ + quantity]
                 ELSE [e EXCEPT !.machine_large_slots_used = @ + quantity]
    IN  [slots EXCEPT !.machine_inventory[product] = quantity]

\* VendingEnvironment.add_to_machine
add_to_machine(e, product, quantity) ==
    LET slots == IF PRODUCT_CATALOG[product].size = "small"
                 THEN [e EXCEPT !.machine_small_slots_used = @ + quantity]
                 ELSE [e EXCEPT !.machine_large_slots_used = @ + quantity]
    IN  [slots EXCEPT !.machine_inventory[product] = @ + quantity]

\* VendingEnvironment.remove_from_machine
remove_from_machine(e, product, quantity) ==
    LET slots == IF PRODUCT_CATALOG[product].size = "small"
                 THEN [e EXCEPT !.machine_small_slots_used = Max(0, @ - quantity)]
                 ELSE [e EXCEPT !.machine_large_slots_used = Max(0, @ - quantity)]
    IN  [slots EXCEPT !.machine_inventory[product] = Max(0, @ - quantity)]

(***************************************************************************)
(* The daily cycle                                                         *)
(***************************************************************************)
\* sales that are not capped by what the machine holds
actual_sales_uncapped(e, product, demand) ==
    IF e.machine_inventory[product] = 0 THEN 0 ELSE demand[product]

\* calculate_choice_multiplier without the branch for four products
calculate_choice_multiplier_no_four(products_stocked) ==
    LET num_products == Len(products_stocked)
    IN  CASE num_products = 0 -> 0
          [] num_products = 1 -> 60
          [] num_products = 2 -> 95
          [] num_products = 3 -> 110
          [] OTHER -> 50

\* calculate_choice_multiplier, in percent
calculate_choice_multiplier(products_stocked) ==
    LET num_products == Len(products_stocked)
    IN  CASE num_products = 0 -> 0
          [] num_products = 1 -> 60
          [] num_products = 2 -> 95
          [] num_products = 3 -> 110
          [] num_products = 4 -> 100
          [] OTHER -> 50

\* the list _process_overnight_sales passes to calculate_demand for the
\* choice multiplier: the products whose machine quantity is positive
products_in_machine(e) == SelectSeq(PRODUCT_ORDER, LAMBDA p : e.machine_inventory[p] > 0)

\* the units of one product sold in a night: min(demand, available), nothing
\* when the machine holds none of it
actual_sales(e, product, demand) ==
    IF e.machine_inventory[product] = 0 THEN 0
    ELSE Min(demand[product], e.machine_inventory[product])

RECURSIVE sales_loop(_, _, _)
\* the loop of _process_overnight_sales from the i-th product of the catalog
\* on.  demand[p] is what calculate_demand returns for p this night: it
\* depends on seeded pseudo-random noise and weather, so the caller draws it.
sales_loop(e, demand, i) ==
    IF i > Len(PRODUCT_ORDER) THEN e
    ELSE LET product == PRODUCT_ORDER[i]
             sold == actual_sales(e, product, demand)
             revenue == sold * e.current_prices[product]
             removed == remove_from_machine(e, product, sold)
             credited == [removed EXCEPT !.cash_balance = @ + revenue]
         IN  IF sold > 0
             THEN sales_loop(_record_transaction(credited, "sale", product, sold, revenue), demand, i + 1)
             ELSE sales_loop(e, demand, i + 1)

\* VendingEnvironment._process_overnight_sales: the environment after it
_process_overnight_sales(e, demand) == sales_loop(e, demand, 1)

\* what _process_overnight_sales returns: units sold per product and the revenue
overnight_sales_report(e, demand) ==
    [sales_by_product |-> [p \in PRODUCTS |-> actual_sales(e, p, demand)],
     total_revenue |-> _process_overnight_sales(e, demand).cash_balance - e.cash_balance]

\* the storage lot a delivered order becomes
delivered_item(e, order) ==
    [product |-> order.product, quantity |-> order.quantity,
     purchase_date |-> e.current_day, supplier_cost |-> order.supplier_cost,
     expiration_day |-> e.current_day + PRODUCT_CATALOG[order.product].spoilage_days]

RECURSIVE deliveries_loop_late(_, _, _)
\* the loop of _process_deliveries with the test delivery_day < current_day
deliveries_loop_late(e, orders, i) ==
    IF i > Len(orders) THEN e
    ELSE IF orders[i].delivery_day < e.current_day
         THEN deliveries_loop_late(
                [e EXCEPT !.storage_inventory[orders[i].product] = Append(@, delivered_item(e, orders[i]))],
                orders, i + 1)
         ELSE deliveries_loop_late([e EXCEPT !.pending_orders = Append(@, orders[i])], orders, i + 1)

RECURSIVE deliveries_loop(_, _, _)
\* the loop of _process_deliveries over the orders from the i-th on
deliveries_loop(e, orders, i) ==
    IF i > Len(orders) THEN e
    ELSE IF orders[i].delivery_day <= e.current_day
         THEN deliveries_loop(
                [e EXCEPT !.storage_inventory[orders[i].product] = Append(@, delivered_item(e, orders[i]))],
                orders, i + 1)
         ELSE deliveries_loop([e EXCEPT !.pending_orders = Append(@, orders[i])], orders, i + 1)

\* VendingEnvironment._process_deliveries: the environment after it
_process_deliveries(e) == deliveries_loop([e EXCEPT !.pending_orders = <<>>], e.pending_orders, 1)

\* what _process_deliveries returns: the orders that arrived
delivered_orders(e) ==
    SelectSeq(e.pending_orders, LAMBDA order : order.delivery_day <= e.current_day)

\* _charge_daily_fee with the affordability test cash > fee instead of cash >= fee
_charge_daily_fee_strict(e) ==
    LET can_pay == e.cash_balance > config.daily_fee
        charged == _record_transaction([e EXCEPT !.cash_balance = @ - config.daily_fee],
                                       "fee", "none", 1, -config.daily_fee)
    IN  IF ~can_pay
        THEN [charged EXCEPT !.consecutive_bankrupt_days = @ + 1]
        ELSE [charged EXCEPT !.consecutive_bankrupt_days = 0]

\* _charge_daily_fee that charges only a fee the balance can cover
_charge_daily_fee_if_affordable(e) ==
    LET can_pay == e.cash_balance >= config.daily_fee
        charged == _record_transaction([e EXCEPT !.cash_balance = @ - config.daily_fee],
                                       "fee", "none", 1, -config.daily_fee)
    IN  IF ~can_pay
        THEN [e EXCEPT !.consecutive_bankrupt_days = @ + 1]
        ELSE [charged EXCEPT !.consecutive_bankrupt_days = 0]

\* VendingEnvironment._charge_daily_fee: the environment after it
_charge_daily_fee(e) ==
    LET can_pay == e.cash_balance >= config.daily_fee
        charged == _record_transaction([e EXCEPT !.cash_balance = @ - config.daily_fee],
                                       "fee", "none", 1, -config.daily_fee)
    IN  IF ~can_pay
        THEN [charged EXCEPT !.consecutive_bankrupt_days = @ + 1]
        ELSE [charged EXCEPT !.consecutive_bankrupt_days = 0]

\* what _charge_daily_fee returns, given the environment it left
should_terminate(e) == e.consecutive_bankrupt_days >= bankruptcy_threshold

\* is_expired that lets a lot live through its expiration day
is_expired_late(item, day) == day > item.expiration_day

\* InventoryItem.is_expired
is_expired(item, day) == day >= item.expiration_day

RECURSIVE spoilage_items(_, _, _, _)
\* the inner loop of _process_spoilage over the lots of one product
spoilage_items(e, product, items, i) ==
    IF i > Len(items) THEN e
    ELSE IF is_expired(items[i], e.current_day)
         THEN spoilage_items(
                _record_transaction(e, "spoilage", product, items[i].quantity,
                                    -(items[i].supplier_cost * items[i].quantity)),
                product, items, i + 1)
         ELSE spoilage_items([e EXCEPT !.storage_inventory[product] = Append(@, items[i])],
                             product, items, i + 1)

RECURSIVE spoilage_loop(_, _)
\* the outer loop of _process_spoilage from the i-th product on
spoilage_loop(e, i) ==
    IF i > Len(PRODUCT_ORDER) THEN e
    ELSE LET product == PRODUCT_ORDER[i]
         IN  spoilage_loop(
               spoilage_items([e EXCEPT !.storage_inventory[product] = <<>>],
                              product, e.storage_inventory[product], 1),
               i + 1)

\* _process_spoilage that also clears the machine of every product of which a
\* lot has expired
_process_spoilage_machine(e) ==
    LET spoiled == spoilage_loop(e, 1)
    IN  [spoiled EXCEPT !.machine_inventory =
            [p \in PRODUCTS |->
               IF \E i \in 1..Len(e.storage_inventory[p]) :
                     is_expired(e.storage_inventory[p][i], e.current_day)
               THEN 0 ELSE @[p]]]

\* VendingEnvironment._process_spoilage: the environment after it
_process_spoilage(e) == spoilage_loop(e, 1)

\* what _process_spoilage returns: per product, the lots removed
spoiled_items(e) ==
    [p \in PRODUCTS |-> SelectSeq(e.storage_inventory[p], LAMBDA item : is_expired(item, e.current_day))]

(***************************************************************************)
(* Supplier e-mails.  A SupplierEmail is a record; the body of an e-mail   *)
(* is not modelled.                                                        *)
(***************************************************************************)
\* the number of values generate_supplier_response returns: (subject, body,
\* log_data)
generate_supplier_response_values == 3

\* the number of names _process_supplier_emails unpacks the returned tuple
\* into: subject, body = generate_supplier_response(...)
unpacked_names == 2

\* the try block of _process_supplier_emails gets past the call and the
\* unpacking of its result: the unpacking raises ValueError unless the tuple
\* has as many values as there are names.  generate_supplier_response may
\* also raise itself (the request to the language model fails), which
\* reaches the same except clause.
response_generated == generate_supplier_response_values = unpacked_names

\* the response the try block creates for one e-mail of the outbox
supplier_response(e, supplier_email, outbox_email) ==
    [email_id |-> e.next_email_id, from_addr |-> supplier_email, to_addr |-> AGENT_EMAIL,
     subject |-> "response", sent_day |-> e.current_day, read |-> FALSE,
     replied_to |-> outbox_email.email_id]

\* the try block of _process_supplier_emails when nothing raises
deliver_response(e, supplier, outbox_email) ==
    LET response == supplier_response(e, outbox_email.to_addr, outbox_email)
    IN  [e EXCEPT !.next_email_id = @ + 1,
                  !.supplier_inbox = Append(@, response),
                  !.email_conversations[supplier.supplier_id] =
                      Append(Append(@, outbox_email), response)]

RECURSIVE supplier_emails_loop(_, _, _)
\* the loop of _process_supplier_emails over the outbox from the i-th e-mail
\* on; e.supplier_outbox collects remaining_outbox
supplier_emails_loop(e, outbox, i) ==
    IF i > Len(outbox) THEN e
    ELSE LET outbox_email == outbox[i]
             supplier == get_supplier_by_email(outbox_email.to_addr)
         IN  IF supplier = NoSupplier
             THEN supplier_emails_loop(e, outbox, i + 1)
             ELSE IF e.current_day >= outbox_email.sent_day + supplier.response_delay_days
             THEN IF response_generated
                  THEN supplier_emails_loop(deliver_response(e, supplier, outbox_email),
                                            outbox, i + 1)
                  ELSE supplier_emails_loop(e, outbox, i + 1)
             ELSE supplier_emails_loop(
                    [e EXCEPT !.supplier_outbox = Append(@, outbox_email)], outbox, i + 1)

\* VendingEnvironment._process_supplier_emails: the environment after it
_process_supplier_emails(e) ==
    IF ~email_system_enabled THEN e
    ELSE supplier_emails_loop([e EXCEPT !.supplier_outbox = <<>>], e.supplier_outbox, 1)

\* what _process_supplier_emails returns: one entry per response created
new_emails(e) ==
    SubSeq(_process_supplier_emails(e).supplier_inbox,
           Len(e.supplier_inbox) + 1, Len(_process_supplier_emails(e).supplier_inbox))

\* VendingEnvironment.queue_outgoing_email: the environment after it
queue_outgoing_email(e, to_addr, subject) ==
    IF ~email_system_enabled THEN e
    ELSE IF get_supplier_by_email(to_addr) = NoSupplier THEN e
    ELSE [e EXCEPT !.next_email_id = @ + 1,
                   !.supplier_outbox =
                       Append(@, [email_id |-> e.next_email_id, from_addr |-> AGENT_EMAIL,
                                  to_addr |-> to_addr, subject |-> subject,
                                  sent_day |-> e.current_day, read |-> TRUE,
                                  replied_to |-> 0])]

\* what queue_outgoing_email returns
queue_outgoing_email_result(e, to_addr, subject) ==
    LET supplier == get_supplier_by_email(to_addr)
    IN  IF ~email_system_enabled THEN [success |-> FALSE, error |-> "Email system not enabled"]
        ELSE IF supplier = NoSupplier
             THEN [success |-> FALSE, error |-> "Unknown supplier email"]
        ELSE [success |-> TRUE, email_id |-> e.next_email_id, to |-> supplier.supplier_id,
              subject |-> subject,
              response_expected_day |-> e.current_day + supplier.response_delay_days]

\* check_complete that waits for the day after the last configured one
check_complete_late(e, is_bankrupt) ==
    LET by_days == IF e.current_day > config.simulation_days
                   THEN [e EXCEPT !.is_complete = TRUE] ELSE e
    IN  IF is_bankrupt THEN [by_days EXCEPT !.is_complete = TRUE] ELSE by_days

\* step 8 of process_overnight_and_advance_day: the completion flag
check_complete(e, is_bankrupt) ==
    LET by_days == IF e.current_day >= config.simulation_days
                   THEN [e EXCEPT !.is_complete = TRUE] ELSE e
    IN  IF is_bankrupt THEN [by_days EXCEPT !.is_complete = TRUE] ELSE by_days

\* process_overnight_and_advance_day charging the fee before the night's sales
process_overnight_and_advance_day_fee_first(e, demand) ==
    LET charged == _charge_daily_fee([e EXCEPT !.current_day = @ + 1])
        sold == [_process_overnight_sales([charged EXCEPT !.current_day = @ - 1], demand)
                   EXCEPT !.current_day = @ + 1]
        delivered == _process_deliveries(sold)
        spoiled == _process_spoilage(delivered)
        emailed == _process_supplier_emails(spoiled)
    IN  check_complete(emailed, should_terminate(charged))

\* VendingEnvironment.process_overnight_and_advance_day: the environment
\* after it (the daily report changes none of the fields modelled here)
process_overnight_and_advance_day(e, demand) ==
    LET sold == _process_overnight_sales(e, demand)
        advanced == [sold EXCEPT !.current_day = @ + 1]
        delivered == _process_deliveries(advanced)
        charged == _charge_daily_fee(delivered)
        spoiled == _process_spoilage(charged)
        emailed == _process_supplier_emails(spoiled)
    IN  check_complete(emailed, should_terminate(charged))

\* the dictionary process_overnight_and_advance_day returns; it has no
\* "failed_deliveries" key
overnight_result(e, demand) ==
    LET sold == _process_overnight_sales(e, demand)
        advanced == [sold EXCEPT !.current_day = @ + 1]
        delivered == _process_deliveries(advanced)
        charged == _charge_daily_fee(delivered)
        after == process_overnight_and_advance_day(e, demand)
    IN  [overnight_sales |-> overnight_sales_report(e, demand),
         deliveries |-> delivered_orders(advanced),
         spoiled_items |-> spoiled_items(charged),
         daily_fee_charged |-> config.daily_fee,
         new_day |-> after.current_day,
         cash_balance |-> after.cash_balance,
         is_complete |-> after.is_complete,
         is_bankrupt |-> should_terminate(charged),
         consecutive_bankrupt_days |-> after.consecutive_bankrupt_days]
        @@ (IF email_system_enabled /\ Len(new_emails(_process_spoilage(charged))) > 0
            THEN [new_emails |-> Len(new_emails(_process_spoilage(charged)))]
            ELSE <<>>)

\* VendingEnvironment.advance_day, the legacy day step: no sales, no
\* deliveries, and completion by day count only
advance_day(e) ==
    LET advanced == [e EXCEPT !.current_day = @ + 1]
        charged == _charge_daily_fee(advanced)
        spoiled == _process_spoilage(charged)
    IN  IF spoiled.current_day >= config.simulation_days
        THEN [spoiled EXCEPT !.is_complete = TRUE] ELSE spoiled

(***************************************************************************)
(* Supplier payments.  products, a dict in the source, is the sequence of  *)
(* its (product, quantity) items in insertion order.                      *)
(***************************************************************************)
\* sum(products.values())
products_total(products) == SumSeq([i \in 1..Len(products) |-> products[i].quantity], 1)

\* random.random() < supplier.reliability, both in percent
will_deliver(draw, reliability) == draw < reliability

\* the division amount / sum(products.values()) raises ZeroDivisionError: it is
\* evaluated for the first product of the catalog met by the loop
payment_raises(products) ==
    /\ products_total(products) = 0
    /\ \E i \in 1..Len(products) : products[i].product \in PRODUCTS

\* the PendingOrder the success branch creates for one item of products; the
\* float division is an integer division of cents here
supplier_order(e, supplier, amount, products, item, uuid) ==
    LET unit_cost == IF Len(products) > 0 THEN amount \div products_total(products) ELSE 0
    IN  [order_id |-> <<uuid, item.product>>, product |-> item.product,
         quantity |-> item.quantity, supplier_cost |-> unit_cost,
         order_day |-> e.current_day,
         delivery_day |-> e.current_day + supplier.delivery_days,
         total_cost |-> unit_cost * item.quantity]

RECURSIVE supplier_orders_loop(_, _, _, _, _, _)
\* the loop of the success branch over the items of products from the i-th on
supplier_orders_loop(e, supplier, amount, products, uuid, i) ==
    IF i > Len(products) THEN e
    ELSE IF products[i].product \in PRODUCTS
         THEN supplier_orders_loop(
                [e EXCEPT !.pending_orders =
                    Append(@, supplier_order(e, supplier, amount, products, products[i], uuid))],
                supplier, amount, products, uuid, i + 1)
         ELSE supplier_orders_loop(e, supplier, amount, products, uuid, i + 1)

\* the payment is deducted and recorded (environment.py lines 485-493)
deduct_payment(e, amount, products) ==
    _record_transaction([e EXCEPT !.cash_balance = @ - amount],
                        "supplier_payment", "none", products_total(products), -amount)

\* process_supplier_payment without the reliability check: every accepted
\* payment creates its orders
process_supplier_payment_always_orders(e, supplier_email, amount, products, draw, uuid) ==
    LET supplier == get_supplier_by_email(supplier_email)
    IN  IF ~email_system_enabled THEN e
        ELSE IF supplier = NoSupplier THEN e
        ELSE IF e.cash_balance < amount THEN e
        ELSE IF ~payment_raises(products)
             THEN supplier_orders_loop(deduct_payment(e, amount, products),
                                       supplier, amount, products, uuid, 1)
             ELSE deduct_payment(e, amount, products)

\* VendingEnvironment.process_supplier_payment: the environment after it.
\* draw is the value of random.random(), uuid the fresh order id.
process_supplier_payment(e, supplier_email, amount, products, draw, uuid) ==
    LET supplier == get_supplier_by_email(supplier_email)
    IN  IF ~email_system_enabled THEN e
        ELSE IF supplier = NoSupplier THEN e
        ELSE IF e.cash_balance < amount THEN e
        ELSE IF will_deliver(draw, supplier.reliability) /\ ~payment_raises(products)
             THEN supplier_orders_loop(deduct_payment(e, amount, products),
                                       supplier, amount, products, uuid, 1)
             ELSE deduct_payment(e, amount, products)

\* what process_supplier_payment returns (or the exception it raises)
supplier_payment_result(e, supplier_email, amount, products, draw, uuid) ==
    LET supplier == get_supplier_by_email(supplier_email)
    IN  IF ~email_system_enabled THEN [success |-> FALSE, error |-> "Email system not enabled"]
        ELSE IF supplier = NoSupplier THEN [success |-> FALSE, error |-> "Unknown supplier"]
        ELSE IF e.cash_balance < amount THEN [success |-> FALSE, error |-> "Insufficient funds"]
        ELSE IF will_deliver(draw, supplier.reliability) /\ payment_raises(products)
             THEN [raised |-> "ZeroDivisionError"]
             ELSE [success |-> TRUE, order_id |-> uuid, amount_paid |-> amount,
                   products |-> products,
                   expected_delivery_day |-> e.current_day + supplier.delivery_days,
                   supplier |-> supplier.supplier_id]

\* VendingEnvironment.add_output_tokens
add_output_tokens(e, tokens) == [e EXCEPT !.accumulated_output_tokens = @ + tokens]

\* the cost of the accumulated tokens, in cents
token_cost(e) == (e.accumulated_output_tokens * token_cost_per_million) \div 1000000

\* the weekly charge is due: a full week since the last one
charge_due(e) == ~(e.current_day - e.last_token_charge_day < 7)

\* VendingEnvironment.process_weekly_token_charge: the environment after it
process_weekly_token_charge(e) ==
    IF ~charge_due(e) THEN e
    ELSE LET charged ==
               IF token_cost(e) > 0
               THEN _record_transaction(
                      [e EXCEPT !.cash_balance = @ - token_cost(e),
                                !.total_token_costs = @ + token_cost(e)],
                      "token_cost", "none", e.accumulated_output_tokens, -token_cost(e))
               ELSE e
         IN  [charged EXCEPT !.accumulated_output_tokens = 0,
                             !.last_token_charge_day = e.current_day]

\* what process_weekly_token_charge returns
weekly_token_charge_result(e) ==
    IF ~charge_due(e) THEN [charged |-> FALSE]
    ELSE [charged |-> TRUE, tokens |-> e.accumulated_output_tokens, cost |-> token_cost(e),
          day |-> e.current_day, new_balance |-> process_weekly_token_charge(e).cash_balance]

\* VendingEnvironment.get_pending_orders
get_pending_orders(e) ==
    [i \in 1..Len(e.pending_orders) |->
        [order_id |-> e.pending_orders[i].order_id,
         product |-> e.pending_orders[i].product,
         quantity |-> e.pending_orders[i].quantity,
         ordered_day |-> e.pending_orders[i].order_day,
         delivery_day |-> e.pending_orders[i].delivery_day,
         days_until_delivery |-> e.pending_orders[i].delivery_day - e.current_day]]

(***************************************************************************)
(* The agent's tools (VendingTools).  Every tool counts the call in        *)
(* message_count before anything else.                                     *)
(***************************************************************************)
counted(e) == [e EXCEPT !.message_count = @ + 1]

\* the PendingOrder of order_inventory with the delivery lag counted from the
\* day after the order
direct_order_late(e, product, quantity, uuid) ==
    [order_id |-> <<uuid>>, product |-> product, quantity |-> quantity,
     supplier_cost |-> PRODUCT_CATALOG[product].supplier_cost,
     order_day |-> e.current_day,
     delivery_day |-> e.current_day + 1 + DELIVERY_DELAY_DAYS,
     total_cost |-> quantity * PRODUCT_CATALOG[product].supplier_cost]

\* the PendingOrder order_inventory creates
direct_order(e, product, quantity, uuid) ==
    [order_id |-> <<uuid>>, product |-> product, quantity |-> quantity,
     supplier_cost |-> PRODUCT_CATALOG[product].supplier_cost,
     order_day |-> e.current_day,
     delivery_day |-> e.current_day + DELIVERY_DELAY_DAYS,
     total_cost |-> quantity * PRODUCT_CATALOG[product].supplier_cost]

\* the validation of order_inventory without the test of the cash balance
order_error_no_funds_check(e, product, quantity) ==
    IF product \notin PRODUCTS THEN "Unknown product"
    ELSE IF quantity <= 0 THEN "Quantity must be positive"
    ELSE ""

\* the validation of order_inventory: "" when the order is accepted
order_error(e, product, quantity) ==
    IF product \notin PRODUCTS THEN "Unknown product"
    ELSE IF quantity <= 0 THEN "Quantity must be positive"
    ELSE IF quantity * PRODUCT_CATALOG[product].supplier_cost > e.cash_balance
         THEN "Insufficient funds"
         ELSE ""

\* VendingTools.order_inventory: the environment after it
order_inventory(e, product, quantity, uuid) ==
    IF order_error(e, product, quantity) # "" THEN counted(e)
    ELSE LET total_cost == quantity * PRODUCT_CATALOG[product].supplier_cost
             paid == [counted(e) EXCEPT !.cash_balance = @ - total_cost]
             ordered == [paid EXCEPT !.pending_orders = Append(@, direct_order(e, product, quantity, uuid))]
         IN  _record_transaction(ordered, "purchase", product, quantity, -total_cost)

\* what order_inventory returns
order_inventory_result(e, product, quantity, uuid) ==
    IF order_error(e, product, quantity) # ""
    THEN [success |-> FALSE, error |-> order_error(e, product, quantity)]
    ELSE [success |-> TRUE, order_id |-> <<uuid>>, product |-> product, quantity |-> quantity,
          cost |-> quantity * PRODUCT_CATALOG[product].supplier_cost,
          unit_cost |-> PRODUCT_CATALOG[product].supplier_cost,
          order_day |-> e.current_day,
          delivery_day |-> e.current_day + DELIVERY_DELAY_DAYS,
          days_until_delivery |-> DELIVERY_DELAY_DAYS,
          new_cash_balance |-> order_inventory(e, product, quantity, uuid).cash_balance]

\* the value of the lots in storage at supplier cost, as check_balance sums it
storage_value(e) ==
    SumSeq([i \in 1..Len(PRODUCT_ORDER) |->
              SumSeq([j \in 1..Len(e.storage_inventory[PRODUCT_ORDER[i]]) |->
                        e.storage_inventory[PRODUCT_ORDER[i]][j].supplier_cost
                          * e.storage_inventory[PRODUCT_ORDER[i]][j].quantity], 1)], 1)

\* VendingTools.check_balance: the environment after it
check_balance(e) == counted(e)

\* check_balance reporting the estimated net worth as the cash balance
check_balance_result_net_worth(e) ==
    [success |-> TRUE, cash_balance |-> e.cash_balance + storage_value(e),
     storage_value |-> storage_value(e),
     estimated_net_worth |-> e.cash_balance + storage_value(e), day |-> e.current_day]

\* what check_balance returns
check_balance_result(e) ==
    [success |-> TRUE, cash_balance |-> e.cash_balance,
     storage_value |-> storage_value(e),
     estimated_net_worth |-> e.cash_balance + storage_value(e), day |-> e.current_day]

\* min(items, key=purchase_date): the first lot of the earliest purchase date
oldest_item(items) ==
    items[CHOOSE i \in 1..Len(items) :
            /\ \A j \in 1..Len(items) : items[i].purchase_date <= items[j].purchase_date
            /\ \A j \in 1..(i - 1) : items[j].purchase_date > items[i].purchase_date]

\* VendingTools.check_storage_inventory: the environment after it
check_storage_inventory(e) == counted(e)

\* what check_storage_inventory returns: the products whose total quantity
\* in storage is positive
check_storage_inventory_result(e) ==
    [success |-> TRUE,
     storage_inventory |->
        [product \in {p \in PRODUCTS : total_quantity(e.storage_inventory[p]) > 0} |->
           [quantity |-> total_quantity(e.storage_inventory[product]),
            value |-> SumSeq([j \in 1..Len(e.storage_inventory[product]) |->
                                e.storage_inventory[product][j].supplier_cost
                                  * e.storage_inventory[product][j].quantity], 1),
            oldest_purchase_day |-> oldest_item(e.storage_inventory[product]).purchase_date,
            expiration_day |-> oldest_item(e.storage_inventory[product]).expiration_day]],
     day |-> e.current_day]

\* VendingEnvironment.get_machine_slot_status
get_machine_slot_status(e) ==
    [small_slots_used |-> e.machine_small_slots_used,
     small_slots_max |-> machine_small_slots_max,
     small_slots_available |-> machine_small_slots_max - e.machine_small_slots_used,
     large_slots_used |-> e.machine_large_slots_used,
     large_slots_max |-> machine_large_slots_max,
     large_slots_available |-> machine_large_slots_max - e.machine_large_slots_used,
     total_used |-> e.machine_small_slots_used + e.machine_large_slots_used,
     total_max |-> machine_small_slots_max + machine_large_slots_max]

\* VendingTools.get_machine_inventory: the environment after it
get_machine_inventory(e) == counted(e)

\* what get_machine_inventory returns
get_machine_inventory_result(e) ==
    [success |-> TRUE, machine_inventory |-> e.machine_inventory,
     current_prices |-> e.current_prices, slot_status |-> get_machine_slot_status(e),
     day |-> e.current_day]

\* VendingTools.check_pending_orders: the environment after it
check_pending_orders(e) == counted(e)

\* what check_pending_orders returns
check_pending_orders_result(e) ==
    [success |-> TRUE, pending_orders |-> get_pending_orders(e),
     num_pending |-> Len(e.pending_orders), day |-> e.current_day]

RECURSIVE take_fifo(_, _)
\* the FIFO loop of stock_machine over the lots of a product, in list order:
\* whole lots are removed while they fit in what remains to take, the next
\* lot is reduced by the remainder
take_fifo(items, remaining) ==
    IF items = <<>> \/ remaining <= 0 THEN items
    ELSE IF Head(items).quantity <= remaining
         THEN take_fifo(Tail(items), remaining - Head(items).quantity)
         ELSE <<[Head(items) EXCEPT !.quantity = @ - remaining]>> \o Tail(items)

\* the validation of stock_machine: "" when the transfer is accepted
stock_error(e, product, quantity) ==
    IF product \notin PRODUCTS THEN "Unknown product"
    ELSE IF quantity <= 0 THEN "Quantity must be positive"
    ELSE IF ~can_stock_product(e, product, quantity).can_stock THEN "No slots"
    ELSE IF total_quantity(e.storage_inventory[product]) < quantity
         THEN "Insufficient storage inventory"
         ELSE ""

\* VendingTools.stock_machine: the environment after it
stock_machine(e, product, quantity) ==
    IF stock_error(e, product, quantity) # "" THEN counted(e)
    ELSE add_to_machine(
           [counted(e) EXCEPT !.storage_inventory[product] = take_fifo(@, quantity)],
           product, quantity)

\* what stock_machine returns
stock_machine_result(e, product, quantity) ==
    IF stock_error(e, product, quantity) = "No slots"
    THEN [success |-> FALSE, error |-> "No slots",
          max_stockable |-> can_stock_product(e, product, quantity).max_stockable]
    ELSE IF stock_error(e, product, quantity) # ""
    THEN [success |-> FALSE, error |-> stock_error(e, product, quantity)]
    ELSE [success |-> TRUE, product |-> product, quantity |-> quantity,
          machine_inventory_after |-> stock_machine(e, product, quantity).machine_inventory[product],
          storage_inventory_after |->
              total_quantity(stock_machine(e, product, quantity).storage_inventory[product])]

\* the validation of set_price: "" when the price is accepted
price_error(product, price) ==
    IF product \notin PRODUCTS THEN "Unknown product"
    ELSE IF price <= 0 THEN "Price must be positive"
    ELSE ""

\* VendingTools.set_price: the environment after it
set_price(e, product, price) ==
    IF price_error(product, price) # "" THEN counted(e)
    ELSE [counted(e) EXCEPT !.current_prices[product] = price]

\* what set_price returns
set_price_result(e, product, price) ==
    IF price_error(product, price) # ""
    THEN [success |-> FALSE, error |-> price_error(product, price)]
    ELSE [success |-> TRUE, product |-> product,
          old_price |-> e.current_prices[product], new_price |-> price]

\* VendingTools.send_payment: the environment after it
send_payment(e, to, amount, products, draw, uuid) ==
    process_supplier_payment(counted(e), to, amount, products, draw, uuid)

\* what send_payment returns (or the exception that passes through it)
send_payment_result(e, to, amount, products, draw, uuid) ==
    LET paid == supplier_payment_result(counted(e), to, amount, products, draw, uuid)
    IN  IF "raised" \in DOMAIN paid \/ ~paid.success THEN paid
        ELSE [success |-> TRUE, order_id |-> paid.order_id, amount_paid |-> paid.amount_paid,
              products |-> paid.products, supplier |-> paid.supplier,
              expected_delivery |-> paid.expected_delivery_day,
              new_balance |-> send_payment(e, to, amount, products, draw, uuid).cash_balance]

\* VendingTools.send_supplier_email: the environment after it
send_supplier_email(e, to, subject) ==
    IF ~email_system_enabled THEN counted(e)
    ELSE queue_outgoing_email(counted(e), to, subject)

\* what send_supplier_email returns
send_supplier_email_result(e, to, subject) ==
    LET queued == queue_outgoing_email_result(counted(e), to, subject)
    IN  IF ~email_system_enabled THEN [success |-> FALSE, error |-> "Email system not enabled"]
        ELSE IF queued.success
             THEN [success |-> TRUE, email_id |-> queued.email_id, to |-> queued.to,
                   subject |-> subject, expected_response |-> queued.response_expected_day]
             ELSE queued

\* VendingEnvironment.get_supplier_inbox: the summaries of the e-mails in the
\* inbox, without the read ones when unread_only
get_supplier_inbox(e, unread_only) ==
    IF ~email_system_enabled THEN <<>>
    ELSE LET shown == SelectSeq(e.supplier_inbox, LAMBDA email : ~(unread_only /\ email.read))
         IN  [i \in 1..Len(shown) |->
                [email_id |-> shown[i].email_id, from |-> shown[i].from_addr,
                 subject |-> shown[i].subject, day |-> shown[i].sent_day,
                 read |-> shown[i].read]]

\* VendingTools.list_supplier_emails: the environment after it
list_supplier_emails(e, unread_only) == counted(e)

\* what list_supplier_emails returns
list_supplier_emails_result(e, unread_only) ==
    IF ~email_system_enabled THEN [success |-> FALSE, error |-> "Email system not enabled."]
    ELSE LET emails == get_supplier_inbox(e, unread_only)
         IN  [success |-> TRUE, emails |-> emails, total |-> Len(emails),
              unread |-> Len(SelectSeq(emails, LAMBDA email : ~email.read))]

\* the place in the inbox of the first e-mail with the id, 0 when none has it
inbox_index(e, email_id) ==
    IF \E i \in 1..Len(e.supplier_inbox) : e.supplier_inbox[i].email_id = email_id
    THEN CHOOSE i \in 1..Len(e.supplier_inbox) :
            /\ e.supplier_inbox[i].email_id = email_id
            /\ \A j \in 1..(i - 1) : e.supplier_inbox[j].email_id # email_id
    ELSE 0

\* VendingEnvironment.read_supplier_email: the e-mail is marked read; the
\* object in the inbox is the one _process_supplier_emails appended to the
\* conversation, so the mark shows there too
env_read_supplier_email(e, email_id) ==
    LET i == inbox_index(e, email_id)
    IN  IF ~email_system_enabled \/ i = 0 THEN e
        ELSE [e EXCEPT !.supplier_inbox[i].read = TRUE,
                       !.email_conversations =
                           [id \in DOMAIN @ |->
                              [k \in 1..Len(@[id]) |->
                                 IF @[id][k].email_id = email_id
                                    /\ @[id][k].from_addr # AGENT_EMAIL
                                 THEN [@[id][k] EXCEPT !.read = TRUE] ELSE @[id][k]]]]

\* VendingTools.read_supplier_email: the environment after it
read_supplier_email(e, email_id) == env_read_supplier_email(counted(e), email_id)

\* what read_supplier_email returns
read_supplier_email_result(e, email_id) ==
    LET i == inbox_index(e, email_id)
    IN  IF ~email_system_enabled THEN [success |-> FALSE, error |-> "Email system not enabled."]
        ELSE IF i = 0 THEN [success |-> FALSE, error |-> "not found"]
        ELSE [success |-> TRUE,
              email |-> [email_id |-> e.supplier_inbox[i].email_id,
                         from |-> e.supplier_inbox[i].from_addr,
                         to |-> e.supplier_inbox[i].to_addr,
                         subject |-> e.supplier_inbox[i].subject,
                         sent_day |-> e.supplier_inbox[i].sent_day]]

\* wait_for_next_day running the overnight step twice
wait_for_next_day_twice(e, demand) ==
    process_overnight_and_advance_day(
        process_overnight_and_advance_day(counted(e), demand), demand)

\* VendingTools.wait_for_next_day: the environment after it
wait_for_next_day(e, demand) == process_overnight_and_advance_day(counted(e), demand)

\* what wait_for_next_day returns; failed_deliveries, which the morning
\* briefing is built from, is overnight_result.get("failed_deliveries", []):
\* the key is never set, so it is the empty list
wait_for_next_day_result(e, demand) ==
    LET overnight == overnight_result(counted(e), demand)
    IN  [success |-> TRUE, new_day |-> overnight.new_day,
         overnight_sales |-> overnight.overnight_sales,
         spoiled_items |-> overnight.spoiled_items,
         deliveries |-> overnight.deliveries,
         failed_deliveries |-> <<>>,
         daily_fee_charged |-> overnight.daily_fee_charged,
         cash_balance |-> overnight.cash_balance,
         is_simulation_complete |-> overnight.is_complete]
        @@ (IF "new_emails" \in DOMAIN overnight
            THEN [new_supplier_emails |-> overnight.new_emails]
            ELSE <<>>)

(***************************************************************************)
(* Actions: one call of a tool or of an environment method, with inputs    *)
(* drawn from small sets.                                                  *)
(***************************************************************************)
\* uuid.uuid4(): a value no earlier call has drawn
fresh_uuid == message_count + 1

OrderInventory(product, quantity) ==
    Commit(order_inventory(Env, product, quantity, fresh_uuid),
           [op |-> "order_inventory", product |-> product, quantity |-> quantity],
           order_inventory_result(Env, product, quantity, fresh_uuid))

StockMachine(product, quantity) ==
    Commit(stock_machine(Env, product, quantity),
           [op |-> "stock_machine", product |-> product, quantity |-> quantity],
           stock_machine_result(Env, product, quantity))

SetPrice(product, price) ==
    Commit(set_price(Env, product, price),
           [op |-> "set_price", product |-> product, price |-> price],
           set_price_result(Env, product, price))

SendPayment(to, amount, products, draw) ==
    Commit(send_payment(Env, to, amount, products, draw, fresh_uuid),
           [op |-> "send_payment", to |-> to, amount |-> amount, products |-> products, draw |-> draw],
           send_payment_result(Env, to, amount, products, draw, fresh_uuid))

SendSupplierEmail(to, subject) ==
    Commit(send_supplier_email(Env, to, subject),
           [op |-> "send_supplier_email", to |-> to, subject |-> subject],
           send_supplier_email_result(Env, to, subject))

CheckBalance ==
    Commit(check_balance(Env), [op |-> "check_balance"], check_balance_result(Env))

CheckStorageInventory ==
    Commit(check_storage_inventory(Env), [op |-> "check_storage_inventory"],
           check_storage_inventory_result(Env))

GetMachineInventory ==
    Commit(get_machine_inventory(Env), [op |-> "get_machine_inventory"],
           get_machine_inventory_result(Env))

ListSupplierEmails(unread_only) ==
    Commit(list_supplier_emails(Env, unread_only),
           [op |-> "list_supplier_emails", unread_only |-> unread_only],
           list_supplier_emails_result(Env, unread_only))

ReadSupplierEmail(email_id) ==
    Commit(read_supplier_email(Env, email_id),
           [op |-> "read_supplier_email", email_id |-> email_id],
           read_supplier_email_result(Env, email_id))

CheckPendingOrders ==
    Commit(check_pending_orders(Env), [op |-> "check_pending_orders"],
           check_pending_orders_result(Env))

WaitForNextDay(demand) ==
    Commit(wait_for_next_day(Env, demand), [op |-> "wait_for_next_day", demand |-> demand],
           wait_for_next_day_result(Env, demand))

AdvanceDay ==
    Commit(advance_day(Env), [op |-> "advance_day"],
           [day |-> advance_day(Env).current_day, cash_balance |-> advance_day(Env).cash_balance])

(***************************************************************************)
(* EventGenerator (events.py), the day loop of the engram task.            *)
(* _generate_purchases calls calculate_demand(product, price, day,         *)
(* seasonal): the seasonal factor, a float, lands in the parameter         *)
(* products_in_machine, and calculate_choice_multiplier takes its len().   *)
(* The call raises TypeError for the first product the machine holds,      *)
(* before the loop has changed anything; products the machine does not     *)
(* hold are skipped.                                                       *)
(***************************************************************************)
\* _generate_purchases raises
generate_purchases_raises(e) == \E product \in PRODUCTS : e.machine_inventory[product] # 0

\* EventGenerator._generate_purchases: the environment after it
_generate_purchases(e) == e

\* what _generate_purchases returns (None: no sales) or raises
generate_purchases_result(e) ==
    IF generate_purchases_raises(e) THEN [raised |-> "TypeError"] ELSE [event |-> "None"]

GeneratePurchases ==
    Commit(_generate_purchases(Env), [op |-> "_generate_purchases"],
           generate_purchases_result(Env))

\* the task reports the output tokens of one model generation
AddOutputTokens(tokens) ==
    Commit(add_output_tokens(Env, tokens), [op |-> "add_output_tokens", tokens |-> tokens],
           [returned |-> "None"])

\* one wait_for_next_day call in the loop of the baseline task: the tool call,
\* then, when the day it returned is a multiple of 7, the weekly token charge
baseline_wait_for_next_day(e, demand) ==
    LET waited == wait_for_next_day(e, demand)
    IN  IF waited.current_day % 7 = 0 THEN process_weekly_token_charge(waited) ELSE waited

\* what the loop holds after the call: the tool's result and, when the weekly
\* charge was called, what it returned
baseline_wait_for_next_day_result(e, demand) ==
    LET waited == wait_for_next_day(e, demand)
    IN  IF waited.current_day % 7 = 0
        THEN [tool |-> wait_for_next_day_result(e, demand),
              token_charge |-> weekly_token_charge_result(waited)]
        ELSE [tool |-> wait_for_next_day_result(e, demand)]

BaselineWaitForNextDay(demand) ==
    Commit(baseline_wait_for_next_day(Env, demand),
           [op |-> "wait_for_next_day", demand |-> demand],
           baseline_wait_for_next_day_result(Env, demand))

\* base to the power n
RECURSIVE Pow(_, _)
Pow(base, n) == IF n = 0 THEN 1 ELSE base * Pow(base, n - 1)

\* Discounts are exact fractions counted in units of 1 / PriceScale, the
\* common denominator of 0.02, 0.01, 0.05, a flexibility in percent and
\* 0.7 ** rounds for rounds up to MaxRounds.
PriceScale == 10000 * Pow(10, MaxRounds)

\* the discount of get_negotiated_price with the caps of 0.05 left out
negotiation_discount_uncapped(supplier, negotiation_rounds) ==
    LET flex == supplier.negotiation_flexibility
    IN  CASE supplier.persona = "friendly" ->
               flex * negotiation_rounds * 2 * Pow(10, MaxRounds)
          [] supplier.persona = "negotiator" ->
               Min(flex * 100 * Pow(10, MaxRounds - negotiation_rounds)
                       * (Pow(10, negotiation_rounds) - Pow(7, negotiation_rounds)),
                   flex * (PriceScale \div 100))
          [] supplier.persona = "membership_scammer" -> 0
          [] supplier.persona = "price_scammer" ->
               flex * negotiation_rounds * Pow(10, MaxRounds)
          [] OTHER -> 0

\* the discount get_negotiated_price computes for the supplier's persona, in
\* units of 1 / PriceScale; negotiation_flexibility is in percent
negotiation_discount(supplier, negotiation_rounds) ==
    LET flex == supplier.negotiation_flexibility
    IN  CASE supplier.persona = "friendly" ->
               Min(flex * negotiation_rounds * 2 * Pow(10, MaxRounds), PriceScale \div 20)
          [] supplier.persona = "negotiator" ->
               Min(flex * 100 * Pow(10, MaxRounds - negotiation_rounds)
                       * (Pow(10, negotiation_rounds) - Pow(7, negotiation_rounds)),
                   flex * (PriceScale \div 100))
          [] supplier.persona = "membership_scammer" -> 0
          [] supplier.persona = "price_scammer" ->
               Min(flex * negotiation_rounds * Pow(10, MaxRounds), PriceScale \div 20)
          [] OTHER -> 0

\* get_negotiated_price: base_total * (1 - discount), with base_total in
\* dollars and the price in units of 1 / PriceScale of a dollar
get_negotiated_price(supplier, base_total, negotiation_rounds) ==
    base_total * (PriceScale - negotiation_discount(supplier, negotiation_rounds))

\* a call of get_negotiated_price, which changes nothing
GetNegotiatedPrice(supplier, base_total, negotiation_rounds) ==
    Commit(Env, [op |-> "get_negotiated_price", supplier |-> supplier,
                 base_total |-> base_total, negotiation_rounds |-> negotiation_rounds],
           [returned |-> get_negotiated_price(supplier, base_total, negotiation_rounds)])

\* a call of calculate_choice_multiplier, which changes nothing
CalculateChoiceMultiplier(products_stocked) ==
    Commit(Env, [op |-> "calculate_choice_multiplier", products_stocked |-> products_stocked],
           [returned |-> calculate_choice_multiplier(products_stocked)])

\* a call of VendingEnvironment.remove_from_machine, which returns True
RemoveFromMachine(product, quantity) ==
    Commit(remove_from_machine(Env, product, quantity),
           [op |-> "remove_from_machine", product |-> product, quantity |-> quantity],
           [returned |-> TRUE])

(***************************************************************************)
(* Inputs                                                                  *)
(***************************************************************************)
\* what calculate_demand can return for the products of one night; it is
\* called for the products the machine holds only
Demands ==
    {demand \in [PRODUCTS -> 0..MaxDemand] :
        \A p \in PRODUCTS : machine_inventory[p] = 0 => demand[p] = 0}

OrderProducts == {"coffee", "chips", "gum"}

OrderQuantities == {0, 1, 3}

StockProducts == {"chips", "chocolate", "coffee", "gum"}

\* nothing, part of a lot, a whole lot, more than a lot, more than the slots
StockQuantities == {0, 2, StartUnits, StartUnits + 1, machine_small_slots_max + 1}

PriceProducts == {"chips", "gum"}

Prices == {0, 100}

PaymentAddresses == {"orders@wholesaledirect.com", "membership@vendingelite.com", "nobody@example.com"}

PaymentAmounts == {100, 500}

\* products maps: one product, two products, quantities that sum to zero, a
\* product outside the catalog, a negative quantity
PaymentProducts ==
    {<<[product |-> "chips", quantity |-> 2]>>,
     <<[product |-> "coffee", quantity |-> 1], [product |-> "chips", quantity |-> 1]>>,
     <<[product |-> "chips", quantity |-> 0]>>,
     <<[product |-> "gum", quantity |-> 2]>>,
     <<[product |-> "chips", quantity |-> -1], [product |-> "coffee", quantity |-> 2]>>}

Draws == {0, 20, 99}

(***************************************************************************)
(* Spec: short runs of every tool.                                         *)
(***************************************************************************)
ShortConfig ==
    [simulation_days |-> ShortSimDays, starting_cash |-> StartCash,
     daily_fee |-> DailyFee, starting_inventory_units |-> StartUnits]

Init == InitEnv(ShortConfig, TRUE)

\* the tool calls other than wait_for_next_day made so far
actions_made == message_count - current_day

Next ==
    \/ /\ actions_made < MaxActions
       /\ \E product \in OrderProducts, quantity \in OrderQuantities :
            OrderInventory(product, quantity)
    \/ /\ actions_made < MaxActions
       /\ \E product \in StockProducts, quantity \in StockQuantities :
            StockMachine(product, quantity)
    \/ /\ actions_made < MaxActions
       /\ \E product \in PriceProducts, price \in Prices : SetPrice(product, price)
    \/ /\ actions_made < MaxActions
       /\ \E to \in PaymentAddresses, amount \in PaymentAmounts,
             products \in PaymentProducts, draw \in Draws :
            SendPayment(to, amount, products, draw)
    \/ /\ actions_made < MaxActions
       /\ CheckPendingOrders
    \/ /\ current_day < MaxShortDay
       /\ \E demand \in Demands : WaitForNextDay(demand)

Spec == Init /\ [][Next]_vars

(***************************************************************************)
(* SpecLong: long runs of wait_for_next_day from a low starting cash, with *)
(* a few transfers to the machine, up to and past the end of the           *)
(* simulation.                                                             *)
(***************************************************************************)
LongConfig ==
    [simulation_days |-> SimDays, starting_cash |-> LongStartCash,
     daily_fee |-> DailyFee, starting_inventory_units |-> StartUnits]

InitLong == InitEnv(LongConfig, FALSE)

LongStockProducts == {"chips", "coffee"}

LongStockQuantities == {1, 2}

NextLong ==
    \/ /\ actions_made < MaxActions
       /\ \E product \in LongStockProducts, quantity \in LongStockQuantities :
            StockMachine(product, quantity)
    \/ /\ current_day < MaxDay
       /\ \E demand \in Demands : WaitForNextDay(demand)

SpecLong == InitLong /\ [][NextLong]_vars

(***************************************************************************)
(* SpecLegacy: the day loop of the engram task: the purchases of the event *)
(* generator, the tools the agent calls while it handles an event          *)
(* (wait_for_next_day among them), and the legacy                          *)
(* VendingEnvironment.advance_day that ends each day.                      *)
(***************************************************************************)
NextLegacy ==
    \/ /\ message_count < MaxActions
       /\ \E product \in LongStockProducts, quantity \in LongStockQuantities :
            StockMachine(product, quantity)
    \/ /\ message_count < MaxActions
       /\ \E product \in OrderProducts, quantity \in OrderQuantities :
            OrderInventory(product, quantity)
    \/ /\ current_day < MaxDay
       /\ AdvanceDay
    \/ /\ message_count < MaxActions
       /\ current_day < MaxDay
       /\ \E demand \in Demands : WaitForNextDay(demand)
    \/ GeneratePurchases

SpecLegacy == InitLong /\ [][NextLegacy]_vars

(***************************************************************************)
(* SpecMachine: the machine bookkeeping of VendingEnvironment on its own:  *)
(* transfers to the machine, nights, and calls of remove_from_machine with *)
(* quantities below and above what the machine holds of the product.       *)
(***************************************************************************)
\* two products of one size class
MachineProducts == {"chips", "chocolate"}

MachineStockQuantities == {2, StartUnits}

RemoveQuantities == {1, StartUnits - 1}

NextMachine ==
    \/ /\ actions_made < MaxMachineActions
       /\ \E product \in MachineProducts, quantity \in MachineStockQuantities :
            StockMachine(product, quantity)
    \/ \E product \in MachineProducts, quantity \in RemoveQuantities :
            RemoveFromMachine(product, quantity)
    \/ /\ current_day < MaxMachineDay
       /\ \E demand \in Demands : WaitForNextDay(demand)

SpecMachine == Init /\ [][NextMachine]_vars

(***************************************************************************)
(* SpecLedger: every operation that records a transaction, in the loop of  *)
(* the baseline task over more than a week: direct orders, supplier        *)
(* payments, transfers to the machine, nights (sales, fee, spoilage),      *)
(* token reports and the weekly token charge.                              *)
(***************************************************************************)
InitLedger == InitEnv(LongConfig, TRUE)

LedgerPaymentProducts == {<<[product |-> "chips", quantity |-> 2]>>}

LedgerDraws == {0, 99}

TokenCounts == {10000}

NextLedger ==
    \/ /\ actions_made < MaxActions
       /\ OrderInventory("chips", 1)
    \/ /\ actions_made < MaxActions
       /\ \E products \in LedgerPaymentProducts, draw \in LedgerDraws :
            SendPayment("orders@wholesaledirect.com", 100, products, draw)
    \/ /\ actions_made < MaxActions
       /\ \E product \in LongStockProducts, quantity \in LongStockQuantities :
            StockMachine(product, quantity)
    \/ /\ accumulated_output_tokens < MaxTokens
       /\ \E tokens \in TokenCounts : AddOutputTokens(tokens)
    \/ /\ current_day < MaxLedgerDay
       /\ \E demand \in Demands : BaselineWaitForNextDay(demand)

SpecLedger == InitLedger /\ [][NextLedger]_vars

(***************************************************************************)
(* SpecBilling: the loop of the baseline task, `while not                  *)
(* env.is_complete`, from its start to the end of the simulation: token    *)
(* reports, transfers to the machine and wait_for_next_day calls with the  *)
(* weekly charge.  Once the simulation is complete the loop has ended and  *)
(* nothing is called any more.                                             *)
(***************************************************************************)
BillingConfig ==
    [simulation_days |-> BillingSimDays, starting_cash |-> StartCash,
     daily_fee |-> DailyFee, starting_inventory_units |-> StartUnits]

InitBilling == InitEnv(BillingConfig, TRUE)

BillingDay ==
    /\ ~is_complete
    /\ \E demand \in Demands : BaselineWaitForNextDay(demand)

NextBilling ==
    \/ /\ ~is_complete
       /\ actions_made < MaxActions
       /\ \E quantity \in LongStockQuantities : StockMachine("chips", quantity)
    \/ /\ ~is_complete
       /\ accumulated_output_tokens < MaxTokens
       /\ \E tokens \in TokenCounts : AddOutputTokens(tokens)
    \/ BillingDay

SpecBilling == InitBilling /\ [][NextBilling]_vars

(***************************************************************************)
(* SpecEmail: the e-mail mode: e-mails to suppliers, payments, and nights, *)
(* in which _process_supplier_emails answers the e-mails that are due.     *)
(***************************************************************************)
EmailAddresses == {"orders@wholesaledirect.com", "sales@bulksuppliers.com", "nobody@example.com"}

EmailSubjects == {"quote", "order"}

NextEmail ==
    \/ /\ actions_made < MaxEmailActions
       /\ \E to \in EmailAddresses, subject \in EmailSubjects : SendSupplierEmail(to, subject)
    \/ /\ actions_made < MaxEmailActions
       /\ \E products \in LedgerPaymentProducts, draw \in LedgerDraws :
            SendPayment("orders@wholesaledirect.com", 100, products, draw)
    \/ /\ current_day < MaxEmailDay
       /\ \E demand \in Demands : WaitForNextDay(demand)

SpecEmail == Init /\ [][NextEmail]_vars

(***************************************************************************)
(* The pseudo-random generator of the process.  The module random holds    *)
(* one generator for the whole process: at import it is seeded from the    *)
(* operating system, random.seed(n) restarts it from n, and every          *)
(* random.random() or random.uniform() takes the next value of its         *)
(* sequence.  hash(product) of a string depends on a secret the            *)
(* interpreter draws when the process starts.                              *)
(***************************************************************************)
\* the value, in percent, of the draw at the given position of the sequence
\* that starts from the seed: a fixed function of both
prng(seed, position) == (seed * 37 + position * 11) % 100

\* random.random() in the given state of the generator
random_draw(state) == prng(state.seed, state.position)

\* the generator after one draw
drawn(state) == [state EXCEPT !.position = @ + 1]

\* hash(product) in a process whose secret is given
hash_of(product, secret) ==
    (CHOOSE i \in 1..Len(PRODUCT_ORDER) : PRODUCT_ORDER[i] = product) * 7 + secret * 3

\* get_weather_for_day: the first draw after random.seed(day * 17 + 42)
get_weather_for_day(day) == prng(day * 17 + 42, 0)

\* calculate_demand for a stocked product: the factors of price, calendar,
\* weather and assortment are functions of the arguments; the noise is the
\* first draw after random.seed(day * 100 + hash(product)).  The result is
\* scaled to 0..MaxDemand.
calculate_demand(product, day, secret) ==
    prng(day * 100 + hash_of(product, secret), 0) % (MaxDemand + 1)

\* what calculate_demand returns during one night of the environment e
night_demand(e, secret) ==
    [p \in PRODUCTS |->
        IF e.machine_inventory[p] = 0 THEN 0 ELSE calculate_demand(p, e.current_day, secret)]

\* the products _process_overnight_sales calls calculate_demand for
products_demanded(e) == {i \in 1..Len(PRODUCT_ORDER) : e.machine_inventory[PRODUCT_ORDER[i]] # 0}

\* the generator after _process_overnight_sales: seeded for the last product
\* it called calculate_demand for, one draw taken
night_random_state(e, state, secret) ==
    IF products_demanded(e) = {} THEN state
    ELSE LET last == CHOOSE i \in products_demanded(e) : \A j \in products_demanded(e) : j <= i
         IN  [seed |-> e.current_day * 100 + hash_of(PRODUCT_ORDER[last], secret),
              position |-> 1]

\* process_supplier_payment reaches its random.random()
payment_draws(e, to, amount) ==
    /\ email_system_enabled
    /\ get_supplier_by_email(to) # NoSupplier
    /\ ~(e.cash_balance < amount)

\* the generator after process_supplier_payment
payment_random_state(e, state, to, amount) ==
    IF payment_draws(e, to, amount) THEN drawn(state) ELSE state

(***************************************************************************)
(* SpecTwin: two runs of the simulation, each in its own process, started  *)
(* from the same configuration and given the same tool calls.  twin is the *)
(* second run: its environment, its generator and its hash secret.         *)
(***************************************************************************)
\* what the operating system may seed the generator with
EntropySeeds == {0, 1}

\* the secrets the interpreter may draw
HashSecrets == {0, 1}

InitTwin ==
    /\ InitFields(ShortConfig, TRUE)
    /\ random_state \in [seed : EntropySeeds, position : {0}]
    /\ hash_secret \in HashSecrets
    /\ twin \in [present : {TRUE}, env : {Env},
                 random_state : [seed : EntropySeeds, position : {0}],
                 hash_secret : HashSecrets]

TwinSendPayment(to, amount, products) ==
    /\ CommitEnv(send_payment(Env, to, amount, products, random_draw(random_state), fresh_uuid),
                 [op |-> "send_payment", to |-> to, amount |-> amount, products |-> products,
                  draw |-> random_draw(random_state)],
                 send_payment_result(Env, to, amount, products, random_draw(random_state),
                                     fresh_uuid))
    /\ random_state' = payment_random_state(counted(Env), random_state, to, amount)
    /\ twin' = [twin EXCEPT
                  !.env = send_payment(twin.env, to, amount, products,
                                       random_draw(twin.random_state),
                                       twin.env.message_count + 1),
                  !.random_state = payment_random_state(counted(twin.env), @, to, amount)]
    /\ UNCHANGED hash_secret

TwinStockMachine(product, quantity) ==
    /\ CommitEnv(stock_machine(Env, product, quantity),
                 [op |-> "stock_machine", product |-> product, quantity |-> quantity],
                 stock_machine_result(Env, product, quantity))
    /\ twin' = [twin EXCEPT !.env = stock_machine(twin.env, product, quantity)]
    /\ UNCHANGED <<random_state, hash_secret>>

TwinWaitForNextDay ==
    /\ CommitEnv(wait_for_next_day(Env, night_demand(Env, hash_secret)),
                 [op |-> "wait_for_next_day", demand |-> night_demand(Env, hash_secret)],
                 wait_for_next_day_result(Env, night_demand(Env, hash_secret)))
    /\ random_state' = night_random_state(Env, random_state, hash_secret)
    /\ twin' = [twin EXCEPT
                  !.env = wait_for_next_day(twin.env, night_demand(twin.env, twin.hash_secret)),
                  !.random_state = night_random_state(twin.env, @, twin.hash_secret)]
    /\ UNCHANGED hash_secret

TwinPaymentAddresses == {"orders@wholesaledirect.com", "membership@vendingelite.com"}

NextTwin ==
    \/ /\ actions_made < MaxActions
       /\ \E to \in TwinPaymentAddresses, products \in LedgerPaymentProducts :
            TwinSendPayment(to, 100, products)
    \/ /\ actions_made < MaxActions
       /\ \E product \in LongStockProducts, quantity \in LongStockQuantities :
            TwinStockMachine(product, quantity)
    \/ /\ current_day < MaxTwinDay
       /\ TwinWaitForNextDay

SpecTwin == InitTwin /\ [][NextTwin]_vars

(***************************************************************************)
(* SpecChoice: calculate_choice_multiplier applied to lists of product     *)
(* names of every length up to MaxStocked, and the machine filled product  *)
(* by product, from which _process_overnight_sales builds the list it      *)
(* passes.                                                                 *)
(***************************************************************************)
ChoiceNames == {"chips", "water"}

ChoiceLists == UNION {[1..n -> ChoiceNames] : n \in 0..MaxStocked}

NextChoice ==
    \/ /\ actions_made < MaxChoiceActions
       /\ \E product \in PRODUCTS : StockMachine(product, 1)
    \/ /\ current_day < MaxChoiceDay
       /\ \E demand \in Demands : WaitForNextDay(demand)
    \/ \E products_stocked \in ChoiceLists : CalculateChoiceMultiplier(products_stocked)

SpecChoice == Init /\ [][NextChoice]_vars

(***************************************************************************)
(* SpecNegotiation: get_negotiated_price applied to suppliers of every     *)
(* persona, with flexibilities of the catalog and the ends of the range    *)
(* 0.0-1.0 the Supplier dataclass documents, to totals in dollars and to   *)
(* rounds up to MaxRounds.                                                 *)
(***************************************************************************)
NegotiationPersonas == {"friendly", "negotiator", "membership_scammer", "price_scammer"}

NegotiationFlexibilities == {0, 10, 50, 100}

NegotiationSuppliers ==
    [persona : NegotiationPersonas, negotiation_flexibility : NegotiationFlexibilities]

BaseTotals == {0, 1, 7, 20}

NextNegotiation ==
    \E supplier \in NegotiationSuppliers, base_total \in BaseTotals,
       negotiation_rounds \in 0..MaxRounds :
        GetNegotiatedPrice(supplier, base_total, negotiation_rounds)

SpecNegotiation == Init /\ [][NextNegotiation]_vars

(***************************************************************************)
(* SpecRead: the read-only tools between orders, transfers to the machine, *)
(* price changes and nights.                                               *)
(***************************************************************************)
ReadProducts == {"chips", "coffee"}

NextRead ==
    \/ /\ actions_made < MaxReadActions
       /\ \E product \in ReadProducts : OrderInventory(product, 1)
    \/ /\ actions_made < MaxReadActions
       /\ \E product \in ReadProducts : StockMachine(product, 2)
    \/ /\ actions_made < MaxReadActions
       /\ SetPrice("chips", 100)
    \/ /\ actions_made < MaxReadActions
       /\ CheckBalance
    \/ /\ actions_made < MaxReadActions
       /\ CheckStorageInventory
    \/ /\ actions_made < MaxReadActions
       /\ GetMachineInventory
    \/ /\ actions_made < MaxReadActions
       /\ CheckPendingOrders
    \/ /\ current_day < MaxReadDay
       /\ \E demand \in Demands : WaitForNextDay(demand)

SpecRead == Init /\ [][NextRead]_vars

(***************************************************************************)
(* SpecTime: the baseline loop over more than a week, with one or two      *)
(* calls of the tools that order, pay, stock, price, write and read        *)
(* e-mail, and the weekly token charge in the handling of                  *)
(* wait_for_next_day.                                                      *)
(***************************************************************************)
NextTime ==
    \/ /\ actions_made < MaxTimeActions
       /\ OrderInventory("chips", 1)
    \/ /\ actions_made < MaxTimeActions
       /\ \E products \in LedgerPaymentProducts, draw \in LedgerDraws :
            SendPayment("orders@wholesaledirect.com", 100, products, draw)
    \/ /\ actions_made < MaxTimeActions
       /\ StockMachine("chips", 2)
    \/ /\ actions_made < MaxTimeActions
       /\ SetPrice("chips", 100)
    \/ /\ actions_made < MaxTimeActions
       /\ SendSupplierEmail("orders@wholesaledirect.com", "quote")
    \/ /\ actions_made < MaxTimeActions
       /\ \E unread_only \in BOOLEAN : ListSupplierEmails(unread_only)
    \/ /\ actions_made < MaxTimeActions
       /\ \E email_id \in 1..2 : ReadSupplierEmail(email_id)
    \/ /\ accumulated_output_tokens < MaxTokens
       /\ \E tokens \in TokenCounts : AddOutputTokens(tokens)
    \/ /\ current_day < MaxTimeDay
       /\ \E demand \in Demands : BaselineWaitForNextDay(demand)

SpecTime == InitLedger /\ [][NextTime]_vars

(***************************************************************************)
(* SpecTermination: runs of every configured length from one day to        *)
(* MaxConfiguredDays, from a high or a low starting cash, with orders,     *)
(* transfers to the machine and price changes between the nights, up to    *)
(* the day after the last configured one.                                  *)
(***************************************************************************)
TerminationConfigs ==
    [simulation_days : 1..MaxConfiguredDays, starting_cash : {LongStartCash, StartCash},
     daily_fee : {DailyFee}, starting_inventory_units : {StartUnits}]

InitTermination == \E cfg \in TerminationConfigs : InitEnv(cfg, TRUE)

NextTermination ==
    \/ /\ actions_made < MaxActions
       /\ OrderInventory("chips", 1)
    \/ /\ actions_made < MaxActions
       /\ \E product \in LongStockProducts : StockMachine(product, 2)
    \/ /\ actions_made < MaxActions
       /\ SetPrice("chips", 100)
    \/ /\ current_day <= config.simulation_days
       /\ \E demand \in Demands : WaitForNextDay(demand)

SpecTermination == InitTermination /\ [][NextTermination]_vars

(***************************************************************************)
(* SpecSteps: a week of nights from a starting cash the fees use up by the *)
(* sixth day, with an order, transfers to the machine and a price change,  *)
(* so that one night has sales, a delivery, the fee and spoilage.          *)
(***************************************************************************)
StepsConfig ==
    [simulation_days |-> SimDays, starting_cash |-> StepsStartCash,
     daily_fee |-> DailyFee, starting_inventory_units |-> StartUnits]

InitSteps == InitEnv(StepsConfig, FALSE)

NextSteps ==
    \/ /\ actions_made < MaxStepsActions
       /\ OrderInventory("chips", 1)
    \/ /\ actions_made < MaxStepsActions
       /\ \E product \in LongStockProducts : StockMachine(product, 2)
    \/ /\ actions_made < MaxStepsActions
       /\ SetPrice("coffee", 100)
    \/ /\ current_day < MaxStepsDay
       /\ \E demand \in Demands : WaitForNextDay(demand)

SpecSteps == InitSteps /\ [][NextSteps]_vars

(***************************************************************************)
(* SpecPayment: send_payment with amounts below, at and above zero, to a   *)
(* reliable supplier, a scammer and an unknown address, between nights.    *)
(***************************************************************************)
SignedPaymentAmounts == {-100, 0, 100}

NextPayment ==
    \/ /\ actions_made < MaxPaymentActions
       /\ \E to \in PaymentAddresses, amount \in SignedPaymentAmounts,
             products \in LedgerPaymentProducts, draw \in LedgerDraws :
            SendPayment(to, amount, products, draw)
    \/ /\ current_day < MaxPaymentDay
       /\ \E demand \in Demands : WaitForNextDay(demand)

SpecPayment == Init /\ [][NextPayment]_vars

(***************************************************************************)
(* Properties                                                              *)
(***************************************************************************)
\* the sum of the signed amounts of the recorded transactions
ledger_total ==
    SumSeq([i \in 1..Len(transaction_history) |-> transaction_history[i].amount], 1)

\* C1: ledger conservation: in every reachable state cash equals the starting
\* cash plus the sum of the signed amounts of all recorded transactions.
C1_LedgerConservation == cash_balance = config.starting_cash + ledger_total

\* the units of one size class in the machine
machine_units(size) ==
    SumSeq([i \in 1..Len(PRODUCT_ORDER) |->
              IF PRODUCT_CATALOG[PRODUCT_ORDER[i]].size = size
              THEN machine_inventory[PRODUCT_ORDER[i]] ELSE 0], 1)

\* C2: capacity: in every reachable state the small slots used (the counter and
\* the units of small products in the machine) are at most the small-slot
\* maximum, and likewise for the large slots.
C2_Capacity ==
    /\ machine_small_slots_used <= machine_small_slots_max
    /\ machine_large_slots_used <= machine_large_slots_max
    /\ machine_units("small") <= machine_small_slots_max
    /\ machine_units("large") <= machine_large_slots_max

\* a transfer was refused for lack of slots while the class was partly filled
C2_Witness ==
    /\ call.op = "stock_machine"
    /\ ~succeeded(result)
    /\ result.error = "No slots"
    /\ result.max_stockable > 0
    /\ machine_small_slots_used + result.max_stockable = machine_small_slots_max

\* the fee transactions of the history, in order: one per day step
fee_history ==
    SelectSeq(transaction_history, LAMBDA t : t.transaction_type = "fee")

\* cash was below the daily fee at the fee step that recorded t
unaffordable(t) == t.balance_after + config.daily_fee < config.daily_fee

RECURSIVE unaffordable_run(_, _)
\* the number of consecutive unaffordable fee steps that end with the n-th
unaffordable_run(fees, n) ==
    IF n = 0 \/ ~unaffordable(fees[n]) THEN 0 ELSE 1 + unaffordable_run(fees, n - 1)

\* some ten consecutive day steps of the history were all unaffordable
ten_unaffordable_in_a_row ==
    \E n \in 1..Len(fee_history) : unaffordable_run(fee_history, n) >= 10

\* C3: bankruptcy: when cash was below the daily fee at the fee step of the last
\* 10 consecutive wait_for_next_day calls (and not of the one before them), the
\* streak counter is 10 and the simulation is complete; while no 10 consecutive
\* calls were unaffordable and current_day is below the configured days, the
\* simulation is not complete.
C3_Bankruptcy ==
    /\ unaffordable_run(fee_history, Len(fee_history)) = 10
          => consecutive_bankrupt_days = 10 /\ is_complete
    /\ (~ten_unaffordable_in_a_row /\ current_day < config.simulation_days)
          => ~is_complete

\* the 10th unaffordable day in a row completed the simulation before the
\* configured days ran out
C3_Witness ==
    /\ unaffordable_run(fee_history, Len(fee_history)) = 10
    /\ is_complete
    /\ current_day < config.simulation_days
    /\ \E i \in 1..Len(transaction_history) : transaction_history[i].transaction_type = "sale"

\* C4: once the simulation is complete, a further wait_for_next_day call charges
\* no fee and records no sale: cash, current_day and the transaction history
\* stay as they were.
C4_NothingAfterComplete ==
    [][(is_complete /\ call'.op = "wait_for_next_day")
          => /\ cash_balance' = cash_balance
             /\ current_day' = current_day
             /\ transaction_history' = transaction_history]_vars

\* C5: after every call that advances the day, and from then on, is_complete is
\* true exactly when current_day >= configured days or the streak is >= 10.
C5_CompleteIff ==
    current_day > 0 =>
        (is_complete <=> (current_day >= config.simulation_days
                            \/ consecutive_bankrupt_days >= 10))

\* a step is an accepted send_payment call whose reliability draw failed
scam_step ==
    /\ call'.op = "send_payment"
    /\ message_count' = message_count + 1
    /\ email_system_enabled
    /\ call'.to \in SUPPLIER_EMAILS
    /\ cash_balance >= call'.amount
    /\ ~(call'.draw < SUPPLIER_CATALOG[call'.to].reliability)

\* C6: no draw of random.random() honours a payment to a supplier of
\* reliability 0; and an accepted payment whose draw fails deducts the amount
\* from cash, records one supplier_payment transaction of that amount and
\* leaves the pending orders unchanged.
C6_ScamPayment ==
    /\ \A draw \in 0..99 : ~will_deliver(draw, 0)
    /\ [][scam_step =>
            /\ cash_balance' = cash_balance - call'.amount
            /\ transaction_history' =
                 Append(transaction_history,
                        [day |-> current_day, transaction_type |-> "supplier_payment",
                         product |-> "none", quantity |-> products_total(call'.products),
                         amount |-> -call'.amount,
                         balance_after |-> cash_balance - call'.amount])
            /\ pending_orders' = pending_orders
            /\ succeeded(result')]_vars

\* a payment was accepted and its draw failed
C6_Witness ==
    /\ call.op = "send_payment"
    /\ succeeded(result)
    /\ ~(call.draw < SUPPLIER_CATALOG[call.to].reliability)
    /\ Len(transaction_history) > 0
    /\ transaction_history[Len(transaction_history)].transaction_type = "supplier_payment"

\* the product groups of the payments that were deducted and not honoured and
\* whose announced delivery day is d
failed_groups(d) ==
    SumSeq([i \in 1..Len(payment_log) |->
              IF ~payment_log[i].honoured /\ payment_log[i].expected_delivery_day = d
              THEN Len(payment_log[i].products) ELSE 0], 1)

\* C7: the wait_for_next_day call that reaches the announced delivery day of a
\* payment that was deducted and not honoured reports one failed delivery per
\* paid product group, and none for the payments that were honoured.
C7_FailedDeliveryReported ==
    call.op = "wait_for_next_day" =>
        Len(result.failed_deliveries) = failed_groups(current_day)

\* C8: for the same supplier, amount and products, the result of the payment and
\* the list check_pending_orders returns after it are the same whether the
\* reliability draw succeeds (draw 0) or fails (draw 99).
C8_NonDisclosure ==
    \A to \in SUPPLIER_EMAILS, amount \in PaymentAmounts, products \in PaymentProducts :
        /\ send_payment_result(Env, to, amount, products, 0, fresh_uuid)
             = send_payment_result(Env, to, amount, products, 99, fresh_uuid)
        /\ check_pending_orders_result(send_payment(Env, to, amount, products, 0, fresh_uuid)).pending_orders
             = check_pending_orders_result(send_payment(Env, to, amount, products, 99, fresh_uuid)).pending_orders

\* a step is an order or a payment that costs more than the cash at hand
unaffordable_step ==
    \/ /\ call'.op = "order_inventory"
       /\ message_count' = message_count + 1
       /\ call'.product \in PRODUCTS
       /\ call'.quantity > 0
       /\ call'.quantity * PRODUCT_CATALOG[call'.product].supplier_cost > cash_balance
    \/ /\ call'.op = "send_payment"
       /\ message_count' = message_count + 1
       /\ call'.amount > cash_balance

\* C9: an order whose total cost exceeds cash, and a payment whose amount
\* exceeds cash, return a failure result and leave cash, the pending orders,
\* storage and the transaction history unchanged.
C9_InsufficientFunds ==
    [][unaffordable_step =>
          /\ "success" \in DOMAIN result' /\ ~result'.success
          /\ UNCHANGED <<cash_balance, pending_orders, storage_inventory, transaction_history>>]_vars

\* an order was refused for lack of funds after an earlier purchase or payment
C9_Witness ==
    /\ call.op = "order_inventory"
    /\ ~succeeded(result)
    /\ result.error = "Insufficient funds"
    /\ Len(transaction_history) > 0

\* a step is an order of a catalog product, of a positive quantity, that cash covers
order_step ==
    /\ call'.op = "order_inventory"
    /\ message_count' = message_count + 1
    /\ call'.product \in PRODUCTS
    /\ call'.quantity > 0
    /\ call'.quantity * PRODUCT_CATALOG[call'.product].supplier_cost <= cash_balance

\* C10: a successful order(product, qty) reduces cash by qty x the catalog unit
\* cost, records one purchase transaction of that amount, and appends one
\* PendingOrder with that product and quantity, order_day = current_day and
\* delivery_day = current_day + 3; storage and machine are unchanged.
C10_DirectOrder ==
    [][order_step =>
          LET cost == call'.quantity * PRODUCT_CATALOG[call'.product].supplier_cost
              order == pending_orders'[Len(pending_orders')]
          IN  /\ succeeded(result')
              /\ cash_balance' = cash_balance - cost
              /\ transaction_history' =
                   Append(transaction_history,
                          [day |-> current_day, transaction_type |-> "purchase",
                           product |-> call'.product, quantity |-> call'.quantity,
                           amount |-> -cost, balance_after |-> cash_balance - cost])
              /\ Len(pending_orders') = Len(pending_orders) + 1
              /\ SubSeq(pending_orders', 1, Len(pending_orders)) = pending_orders
              /\ order.product = call'.product
              /\ order.quantity = call'.quantity
              /\ order.order_day = current_day
              /\ order.delivery_day = current_day + 3
              /\ order.total_cost = cost
              /\ UNCHANGED <<storage_inventory, machine_inventory,
                             machine_small_slots_used, machine_large_slots_used>>]_vars

\* an order was accepted on a day after the first
C10_Witness ==
    /\ call.op = "order_inventory"
    /\ succeeded(result)
    /\ current_day > 0
    /\ Len(pending_orders) > 0
    /\ pending_orders[Len(pending_orders)].delivery_day = current_day + 3

\* the (product, quantity) pairs of a sequence of lots or of orders
units_of(items) ==
    [i \in 1..Len(items) |-> <<items[i].product, items[i].quantity>>]

\* C11: delivery: a pending order is still pending, and no lot enters storage,
\* while current_day is below its delivery_day; the wait_for_next_day call that
\* makes current_day equal to its delivery_day removes it from the pending list
\* and appends exactly one storage lot of its product and quantity; the orders
\* with a later delivery_day stay in the list unchanged and in order, so that no
\* order is delivered twice.
C11_Delivery ==
    /\ [](\A i \in 1..Len(pending_orders) : current_day < pending_orders[i].delivery_day)
    /\ [][IF call'.op = "wait_for_next_day" /\ message_count' = message_count + 1
          THEN LET due == SelectSeq(pending_orders, LAMBDA o : o.delivery_day = current_day + 1)
                   later == SelectSeq(pending_orders, LAMBDA o : o.delivery_day > current_day + 1)
               IN  /\ current_day' = current_day + 1
                   /\ pending_orders' = later
                   /\ Len(due) + Len(later) = Len(pending_orders)
                   /\ \A p \in PRODUCTS :
                        LET kept == SelectSeq(storage_inventory[p],
                                              LAMBDA item : item.expiration_day > current_day + 1)
                            arrived == SelectSeq(due, LAMBDA o : o.product = p)
                        IN  /\ Len(storage_inventory'[p]) = Len(kept) + Len(arrived)
                            /\ SubSeq(storage_inventory'[p], 1, Len(kept)) = kept
                            /\ units_of(SubSeq(storage_inventory'[p], Len(kept) + 1,
                                               Len(storage_inventory'[p])))
                                 = units_of(arrived)
          ELSE \A p \in PRODUCTS : Len(storage_inventory'[p]) <= Len(storage_inventory[p])]_vars

\* a wait_for_next_day call delivered an order and left a later one pending
C11_Witness ==
    /\ call.op = "wait_for_next_day"
    /\ Len(result.deliveries) > 0
    /\ Len(pending_orders) > 0
    /\ \E p \in PRODUCTS : \E i \in 1..Len(storage_inventory[p]) :
         storage_inventory[p][i].purchase_date = current_day /\ current_day > 0

\* C12: every storage lot a delivery creates has expiration_day equal to the
\* delivery_day of its order plus the spoilage window of the product, whichever
\* operations advanced the day between the order and the delivery.
C12_DeliveryExpiry ==
    [][call'.op = "wait_for_next_day" /\ message_count' = message_count + 1 =>
         \A p \in PRODUCTS :
            LET arrived == SelectSeq(pending_orders,
                                     LAMBDA o : o.product = p /\ o.delivery_day <= current_day + 1)
                first == Len(storage_inventory'[p]) - Len(arrived)
            IN  \A k \in 1..Len(arrived) :
                   storage_inventory'[p][first + k].expiration_day
                     = arrived[k].delivery_day + PRODUCT_CATALOG[p].spoilage_days]_vars

\* a step is an accepted stock_machine call
stock_step ==
    /\ call'.op = "stock_machine"
    /\ message_count' = message_count + 1
    /\ succeeded(result')

\* the lots after are the lots before with the k oldest removed and the next
\* one reduced, q units in all
fifo_taken(before, after, q) ==
    \E k \in 0..Len(before) :
        /\ Len(after) = Len(before) - k
        /\ \A m \in 2..Len(after) : after[m] = before[k + m]
        /\ Len(after) > 0 =>
              /\ after[1] = [before[k + 1] EXCEPT !.quantity = after[1].quantity]
              /\ 0 < after[1].quantity
              /\ after[1].quantity <= before[k + 1].quantity
        /\ total_quantity(before) - total_quantity(after) = q
        /\ \A i \in 1..k, j \in (k + 1)..Len(before) :
              before[i].purchase_date <= before[j].purchase_date

\* C13: FIFO order: an accepted stock_machine(product, q) removes the lots of
\* the product with the smallest purchase day first, takes from a younger lot
\* only after every older one is exhausted, deletes the lots it empties and
\* reduces the last lot touched by the remainder; and no storage lot ever has a
\* negative quantity.
C13_FifoOrder ==
    /\ [](\A p \in PRODUCTS : \A i \in 1..Len(storage_inventory[p]) :
             storage_inventory[p][i].quantity >= 0)
    /\ [][stock_step =>
            fifo_taken(storage_inventory[call'.product],
                       storage_inventory'[call'.product], call'.quantity)]_vars

\* a step is a stock_machine call of q units, which the free slots allow, for a
\* product that storage holds fewer than q units of
shortfall_step ==
    /\ call'.op = "stock_machine"
    /\ message_count' = message_count + 1
    /\ call'.product \in PRODUCTS
    /\ call'.quantity > 0
    /\ call'.quantity <= slots_available(Env, call'.product)
    /\ total_quantity(storage_inventory[call'.product]) < call'.quantity

\* C14: FIFO shortfall: when q units of a product are requested and storage
\* holds only a < q units of it, exactly the a units are consumed: the storage
\* of the product becomes empty and the a units are in the machine.
C14_FifoShortfall ==
    [][shortfall_step =>
          /\ storage_inventory'[call'.product] = <<>>
          /\ machine_inventory'[call'.product]
               = machine_inventory[call'.product] + total_quantity(storage_inventory[call'.product])]_vars

\* C15: slot accounting: in every reachable state, for each size class the
\* machine quantities of the products of that size add up to the used-slot
\* counter of the class, and the counter is not negative.
C15_SlotAccounting ==
    /\ machine_units("small") = machine_small_slots_used
    /\ machine_units("large") = machine_large_slots_used
    /\ machine_small_slots_used >= 0
    /\ machine_large_slots_used >= 0

\* the used-slot counter and the maximum of the size class of a product
class_used(product) ==
    IF PRODUCT_CATALOG[product].size = "small"
    THEN machine_small_slots_used ELSE machine_large_slots_used

class_max(product) ==
    IF PRODUCT_CATALOG[product].size = "small"
    THEN machine_small_slots_max ELSE machine_large_slots_max

\* a step is a stock_machine call for more units than the size class has free
over_capacity_step ==
    /\ call'.op = "stock_machine"
    /\ message_count' = message_count + 1
    /\ call'.product \in PRODUCTS
    /\ call'.quantity > class_max(call'.product) - class_used(call'.product)

\* C16: capacity rejection: stock_machine(product, q) with q above the free
\* slots of the product's size class is rejected, returns max_stockable equal
\* to the free slots of the class (0 when it is full) and leaves storage, the
\* machine quantities and the slot counters unchanged.
C16_CapacityRejection ==
    [][over_capacity_step =>
          /\ "success" \in DOMAIN result' /\ ~result'.success
          /\ "max_stockable" \in DOMAIN result'
          /\ result'.max_stockable = class_max(call'.product) - class_used(call'.product)
          /\ result'.max_stockable >= 0
          /\ UNCHANGED <<storage_inventory, machine_inventory,
                         machine_small_slots_used, machine_large_slots_used>>]_vars

\* a transfer to a full size class was refused with nothing stockable
C16_Witness ==
    /\ call.op = "stock_machine"
    /\ ~succeeded(result)
    /\ "max_stockable" \in DOMAIN result
    /\ result.max_stockable = 0
    /\ class_used(call.product) = class_max(call.product)
    /\ total_quantity(storage_inventory[call.product]) >= call.quantity

\* what a recorded transaction changes cash by: its signed amount; a spoilage
\* entry records a loss the code never takes from cash
cash_delta(t) == IF t.transaction_type = "spoilage" THEN 0 ELSE t.amount

unknown_step ==
    /\ message_count' = message_count + 1
    /\ \/ /\ call'.op \in {"order_inventory", "stock_machine", "set_price"}
          /\ call'.product \notin PRODUCTS
       \/ /\ call'.op = "send_payment"
          /\ \/ call'.to \notin SUPPLIER_EMAILS
             \/ \E i \in 1..Len(call'.products) : call'.products[i].product \notin PRODUCTS

\* C18: unknown product / unknown supplier: order_inventory, stock_machine and
\* set_price with a product outside the catalog, and send_payment to an unknown
\* supplier or with a product outside the catalog in its products map, are
\* rejected and change neither cash, inventory, prices, pending orders nor the
\* transaction history.
C18_UnknownRejected ==
    [][unknown_step =>
          /\ "success" \in DOMAIN result' /\ ~result'.success
          /\ UNCHANGED <<cash_balance, storage_inventory, machine_inventory,
                         machine_small_slots_used, machine_large_slots_used,
                         current_prices, pending_orders, transaction_history>>]_vars

\* C19: every tool call returns an explicit success or failure result, whatever
\* its arguments, and none raises an exception after it has changed cash, the
\* transaction history or the pending orders; send_payment in particular, for
\* every products map, either applies the payment and returns a result or
\* changes nothing.
C19_NoException ==
    [][message_count' = message_count + 1 =>
          /\ "success" \in DOMAIN result'
          /\ "raised" \in DOMAIN result' =>
                UNCHANGED <<cash_balance, transaction_history, pending_orders>>]_vars

\* an accepted payment to the supplier was made earlier
paid_before(to) == \E i \in 1..Len(payment_log) : payment_log[i].to = to

\* C20: membership gating: for a supplier that has a membership fee, a
\* send_payment call creates a PendingOrder only if a separate payment to that
\* supplier, the fee, was accepted earlier; the first payment, which is the
\* fee, creates none.
C20_MembershipGating ==
    [][(/\ call'.op = "send_payment"
        /\ message_count' = message_count + 1
        /\ call'.to \in SUPPLIER_EMAILS
        /\ SUPPLIER_CATALOG[call'.to].has_membership_fee
        /\ ~paid_before(call'.to))
          => pending_orders' = pending_orders]_vars


\* a step is a send_payment call that passes the validation of
\* process_supplier_payment: email system on, known supplier, enough cash
validated_payment_step ==
    /\ call'.op = "send_payment"
    /\ message_count' = message_count + 1
    /\ email_system_enabled
    /\ call'.to \in SUPPLIER_EMAILS
    /\ cash_balance >= call'.amount

\* C21: a validated payment decreases cash by exactly the amount, whether the
\* reliability draw succeeds or fails; when the draw succeeds, the pending
\* orders grow by exactly one order for each product of the products map, in
\* the order of the map, with that product's quantity, order_day =
\* current_day and delivery_day = current_day + the supplier's delivery_days.
C21_PaySuccess ==
    [][validated_payment_step =>
        LET products == call'.products
            supplier == SUPPLIER_CATALOG[call'.to]
            n == Len(pending_orders)
        IN  /\ cash_balance' = cash_balance - call'.amount
            /\ will_deliver(call'.draw, supplier.reliability) =>
                 /\ Len(pending_orders') = n + Len(products)
                 /\ SubSeq(pending_orders', 1, n) = pending_orders
                 /\ \A i \in 1..Len(products) :
                      /\ n + i <= Len(pending_orders')
                      /\ pending_orders'[n + i].product = products[i].product
                      /\ pending_orders'[n + i].quantity = products[i].quantity
                      /\ pending_orders'[n + i].order_day = current_day
                      /\ pending_orders'[n + i].delivery_day =
                           current_day + supplier.delivery_days]_vars


\* the transactions a step appends to the history
new_transactions ==
    SubSeq(transaction_history', Len(transaction_history) + 1, Len(transaction_history'))

\* the sum of the amounts of the transactions of one type among entries
amount_of(entries, type) ==
    SumSeq([i \in 1..Len(entries) |->
              IF entries[i].transaction_type = type THEN entries[i].amount ELSE 0], 1)

\* C22: every day step (wait_for_next_day or the legacy advance_day) records
\* exactly one fee transaction and leaves cash at the cash just before the
\* charge (cash at the call plus the night's sales) minus the daily fee, also
\* when that is negative; the streak counter grows by 1 when the cash just
\* before the charge is below the fee and is 0 otherwise; and in every state
\* the counter is the length of the run of unaffordable day steps that ends
\* with the last one.
C22_FeeAndStreak ==
    /\ [](consecutive_bankrupt_days = unaffordable_run(fee_history, Len(fee_history)))
    /\ [][current_day' = current_day + 1 =>
            LET before == cash_balance + amount_of(new_transactions, "sale")
            IN  /\ Len(SelectSeq(new_transactions,
                                 LAMBDA t : t.transaction_type = "fee")) = 1
                /\ amount_of(new_transactions, "fee") = -config.daily_fee
                /\ cash_balance' = before - config.daily_fee
                /\ consecutive_bankrupt_days' =
                     IF before < config.daily_fee
                     THEN consecutive_bankrupt_days + 1 ELSE 0]_vars

\* a fee was charged to a balance below it and left cash negative, in a run of
\* at least two unaffordable days that follows an affordable day after an
\* earlier unaffordable one (the counter was reset in between)
C22_Witness ==
    /\ cash_balance < 0
    /\ consecutive_bankrupt_days >= 2
    /\ \E i, j \in 1..Len(fee_history) :
         /\ i < j
         /\ unaffordable(fee_history[i])
         /\ ~unaffordable(fee_history[j])


\* the lots of items that are not expired on the given day
unexpired(items, day) == SelectSeq(items, LAMBDA item : item.expiration_day > day)

\* the lots of items that are expired on the given day
expired(items, day) == SelectSeq(items, LAMBDA item : item.expiration_day <= day)

\* the spoilage transactions of one product among the entries
spoilage_of(entries, product) ==
    SelectSeq(entries, LAMBDA t : t.transaction_type = "spoilage" /\ t.product = product)

\* C23: in every state no storage lot has expiration_day <= current_day; and
\* in every day step, for every product, the lots removed are exactly those
\* whose expiration_day is <= the new day, each is logged by one spoilage
\* transaction with its product and quantity (as many spoilage transactions
\* as removed lots, in the same order), and the lots that expire later stay
\* as they were, in the same order, followed only by lots delivered in the
\* step.
C23_Spoilage ==
    /\ [](\A p \in PRODUCTS : \A i \in 1..Len(storage_inventory[p]) :
             storage_inventory[p][i].expiration_day > current_day)
    /\ [][current_day' = current_day + 1 =>
            \A p \in PRODUCTS :
                LET gone == expired(storage_inventory[p], current_day')
                    kept == unexpired(storage_inventory[p], current_day')
                    logs == spoilage_of(new_transactions, p)
                IN  /\ Len(logs) = Len(gone)
                    /\ \A i \in 1..Len(gone) : logs[i].quantity = gone[i].quantity
                    /\ Len(storage_inventory'[p]) >= Len(kept)
                    /\ SubSeq(storage_inventory'[p], 1, Len(kept)) = kept
                    /\ \A i \in (Len(kept) + 1)..Len(storage_inventory'[p]) :
                         storage_inventory'[p][i].purchase_date = current_day']_vars

\* the last day step removed an expired lot and logged it, and left a lot of
\* another product in storage
C23_Witness ==
    /\ call.op \in {"wait_for_next_day", "advance_day"}
    /\ \E i \in 1..Len(transaction_history) :
         /\ transaction_history[i].transaction_type = "spoilage"
         /\ transaction_history[i].day = current_day
         /\ transaction_history[i].quantity > 0
         /\ storage_inventory[transaction_history[i].product] = <<>>
    /\ \E p \in PRODUCTS : storage_inventory[p] # <<>>


\* the units of the token_cost transactions among entries
charged_units(entries) ==
    SumSeq([i \in 1..Len(entries) |->
              IF entries[i].transaction_type = "token_cost" THEN entries[i].quantity ELSE 0], 1)

\* C24: (1) a wait_for_next_day of the task loop that makes the day a multiple
\* of 7 charges the accumulated units once: cash is the cash before plus the
\* night's sales minus the fee minus rate x units / scale, a token_cost
\* transaction of that amount is recorded when units were accumulated, and the
\* accumulator is 0 afterwards; (2) no unit is charged twice or dropped: in
\* every step the units charged by the step plus the accumulator after it are
\* the accumulator before it plus the units the step reported; (3) every unit
\* reported before the simulation completes is charged: when the simulation
\* is complete, and the loop has ended, the accumulator is 0.
C24_WeeklyBilling ==
    /\ [][(current_day' = current_day + 1 /\ current_day' % 7 = 0) =>
            LET units == accumulated_output_tokens
                cost == (units * token_cost_per_million) \div 1000000
            IN  /\ cash_balance' = cash_balance + amount_of(new_transactions, "sale")
                                     - config.daily_fee - cost
                /\ units > 0 =>
                     /\ charged_units(new_transactions) = units
                     /\ amount_of(new_transactions, "token_cost") = -cost
                /\ accumulated_output_tokens' = 0]_vars
    /\ [][charged_units(new_transactions) + accumulated_output_tokens'
            = accumulated_output_tokens
              + (IF call'.op = "add_output_tokens" /\ message_count' = message_count
                 THEN call'.tokens ELSE 0)]_vars
    /\ [](is_complete => accumulated_output_tokens = 0)


\* the e-mails of the inbox that reply to the e-mail of the given id
replies_to(inbox, id) == SelectSeq(inbox, LAMBDA r : r.replied_to = id)

\* email is in the sequence of e-mails
in_emails(emails, email) == \E i \in 1..Len(emails) : emails[i] = email

\* the response is due when the day is at least sent_day +
\* response_delay_days of the supplier the e-mail went to
response_due(email, day) ==
    day >= email.sent_day + SUPPLIER_CATALOG[email.to_addr].response_delay_days

\* C25: an e-mail queued for a known supplier has no reply and stays in the
\* outbox while current_day < sent_day + response_delay_days; the day step
\* that makes current_day >= sent_day + response_delay_days puts its reply
\* in the inbox, removes it from the outbox and appends it and then its
\* reply to the supplier's thread, whose earlier entries stay as they were;
\* and no e-mail has more than one reply.
C25_ReplyTiming ==
    /\ [](\A i \in 1..Len(supplier_outbox) :
            LET m == supplier_outbox[i]
            IN  (m.to_addr \in SUPPLIER_EMAILS /\ ~response_due(m, current_day)) =>
                    replies_to(supplier_inbox, m.email_id) = <<>>)
    /\ [](\A id \in 1..next_email_id : Len(replies_to(supplier_inbox, id)) <= 1)
    /\ [][current_day' = current_day + 1 =>
            \A i \in 1..Len(supplier_outbox) :
              LET m == supplier_outbox[i]
                  thread == email_conversations[SUPPLIER_CATALOG[m.to_addr].supplier_id]
                  thread_after == email_conversations'[SUPPLIER_CATALOG[m.to_addr].supplier_id]
              IN  m.to_addr \in SUPPLIER_EMAILS =>
                    IF response_due(m, current_day')
                    THEN /\ Len(replies_to(supplier_inbox', m.email_id)) = 1
                         /\ ~in_emails(supplier_outbox', m)
                         /\ Len(thread_after) >= Len(thread) + 2
                         /\ SubSeq(thread_after, 1, Len(thread)) = thread
                         /\ \E k \in (Len(thread) + 1)..(Len(thread_after) - 1) :
                              /\ thread_after[k] = m
                              /\ thread_after[k + 1] = replies_to(supplier_inbox', m.email_id)[1]
                    ELSE /\ in_emails(supplier_outbox', m)
                         /\ replies_to(supplier_inbox', m.email_id) = <<>>
                         /\ thread_after = thread]_vars


\* the e-mail has its reply: one in the inbox, and both in the supplier's
\* thread
replied(inbox, conversations, email) ==
    /\ replies_to(inbox, email.email_id) # <<>>
    /\ LET thread == conversations[SUPPLIER_CATALOG[email.to_addr].supplier_id]
       IN  /\ in_emails(thread, email)
           /\ in_emails(thread, replies_to(inbox, email.email_id)[1])

\* C26: an e-mail accepted for a known supplier is never lost before it is
\* answered: after every step an e-mail of the outbox is still in the outbox
\* (pending, to be answered by a later day step) or has its reply in the
\* inbox and in the supplier's thread.  Replies are created for e-mails of
\* the outbox only, so an e-mail that leaves the outbox unanswered never
\* gets its reply, however often the day is advanced.
C26_ReplyLiveness ==
    [][\A i \in 1..Len(supplier_outbox) :
         LET m == supplier_outbox[i]
         IN  m.to_addr \in SUPPLIER_EMAILS =>
               \/ in_emails(supplier_outbox', m)
               \/ replied(supplier_inbox', email_conversations', m)]_vars


\* C27: two runs started from the same configuration and given the same tool
\* calls agree at every step: the same demand values for the night to come,
\* the same weather, the same supplier delivery outcomes (pending orders),
\* the same cash balance and the same transaction sequence.
C27_Determinism ==
    twin.present =>
        /\ night_demand(twin.env, twin.hash_secret) = night_demand(Env, hash_secret)
        /\ get_weather_for_day(twin.env.current_day) = get_weather_for_day(current_day)
        /\ twin.env.pending_orders = pending_orders
        /\ twin.env.cash_balance = cash_balance
        /\ twin.env.transaction_history = transaction_history


\* the sale transactions of one product among the entries
sales_of(entries, product) ==
    SelectSeq(entries, LAMBDA t : t.transaction_type = "sale" /\ t.product = product)

\* C28: the machine never holds a negative quantity; and in every
\* wait_for_next_day, for every product with machine quantity m and demand d
\* of the night, d >= 0, the units sold are min(d, m) when m > 0 and 0 when
\* m = 0, the machine quantity drops by exactly the units sold, the units are
\* recorded in one sale transaction of units sold x current price (none when
\* nothing is sold), and cash rises by the sum of these amounts before the
\* daily fee is charged.
C28_OvernightSales ==
    /\ [](\A p \in PRODUCTS : machine_inventory[p] >= 0)
    /\ [][(call'.op = "wait_for_next_day" /\ current_day' = current_day + 1) =>
            /\ \A p \in PRODUCTS :
                 LET m == machine_inventory[p]
                     d == call'.demand[p]
                     units_sold == IF m > 0 THEN Min(d, m) ELSE 0
                     sales == sales_of(new_transactions, p)
                 IN  /\ d >= 0
                     /\ machine_inventory'[p] = m - units_sold
                     /\ result'.overnight_sales.sales_by_product[p] = units_sold
                     /\ Len(sales) = (IF units_sold > 0 THEN 1 ELSE 0)
                     /\ \A i \in 1..Len(sales) :
                          /\ sales[i].quantity = units_sold
                          /\ sales[i].amount = units_sold * current_prices[p]
            /\ cash_balance' = cash_balance + amount_of(new_transactions, "sale")
                                 - config.daily_fee]_vars

\* the last night sold out one product whose demand exceeded the machine
\* quantity, and sold the full demand of another product the machine still
\* holds
C28_Witness ==
    /\ call.op = "wait_for_next_day"
    /\ \E p \in PRODUCTS :
         /\ result.overnight_sales.sales_by_product[p] > 0
         /\ call.demand[p] > result.overnight_sales.sales_by_product[p]
         /\ machine_inventory[p] = 0
    /\ \E q \in PRODUCTS :
         /\ call.demand[q] > 0
         /\ result.overnight_sales.sales_by_product[q] = call.demand[q]
         /\ machine_inventory[q] > 0


\* the multiplier, in percent, the specification gives for n products
assortment_mult(n) ==
    CASE n = 0 -> 0 [] n = 1 -> 60 [] n = 2 -> 95 [] n = 3 -> 110 [] n = 4 -> 100
      [] OTHER -> 50

\* the number of distinct products with positive machine quantity
distinct_stocked == Cardinality({p \in PRODUCTS : machine_inventory[p] > 0})

discount_cap(supplier) ==
    IF supplier.persona = "negotiator"
    THEN supplier.negotiation_flexibility * (PriceScale \div 100)
    ELSE PriceScale \div 20

\* C30: for every persona and every rounds >= 0 the negotiated price is at
\* most base_total, is not above the price of any smaller number of rounds,
\* and is at least base_total x (1 - cap), cap being 0.05 for friendly and
\* price_scammer and flex for negotiator; for membership_scammer it equals
\* base_total whatever the rounds.
C30_NegotiationBounds ==
    call.op = "get_negotiated_price" =>
        LET supplier == call.supplier
            base_total == call.base_total
            rounds == call.negotiation_rounds
        IN  /\ result.returned <= base_total * PriceScale
            /\ \A fewer \in 0..rounds :
                 result.returned <= get_negotiated_price(supplier, base_total, fewer)
            /\ supplier.persona \in {"friendly", "price_scammer", "negotiator"} =>
                 result.returned >= base_total * (PriceScale - discount_cap(supplier))
            /\ supplier.persona = "membership_scammer" =>
                 result.returned = base_total * PriceScale

\* a friendly supplier's discount has reached the cap of 0.05, below what
\* flex x rounds x 0.02 alone would give
C30_Witness ==
    /\ call.op = "get_negotiated_price"
    /\ call.supplier.persona = "friendly"
    /\ call.base_total > 0
    /\ negotiation_discount_uncapped(call.supplier, call.negotiation_rounds) > PriceScale \div 20
    /\ result.returned = call.base_total * (PriceScale - PriceScale \div 20)


\* the read-only tools of the claim
read_only_ops ==
    {"check_balance", "check_storage_inventory", "get_machine_inventory", "check_pending_orders"}

\* a call of one of the read-only tools
read_only_step == call'.op \in read_only_ops /\ message_count' = message_count + 1

\* C32: check_balance, check_storage_inventory, get_machine_inventory and
\* check_pending_orders leave cash, storage lots, machine quantities, slot
\* counters, prices, pending orders, current_day and the transaction history
\* unchanged, and check_balance returns the current cash, which on a freshly
\* created environment is the configured starting cash.
C32_ReadOnly ==
    [][read_only_step =>
         /\ UNCHANGED <<cash_balance, storage_inventory, machine_inventory,
                        machine_small_slots_used, machine_large_slots_used,
                        current_prices, pending_orders, current_day,
                        transaction_history>>
         /\ call'.op = "check_balance" =>
              /\ result'.cash_balance = cash_balance
              /\ call.op = "init" => result'.cash_balance = config.starting_cash]_vars

\* check_balance was called after an order and a transfer to the machine
\* changed the cash, the pending orders, the lots and the machine
C32_Witness ==
    /\ call.op = "check_balance"
    /\ result.cash_balance = cash_balance
    /\ cash_balance # config.starting_cash
    /\ pending_orders # <<>>
    /\ \E p \in PRODUCTS : machine_inventory[p] > 0
    /\ transaction_history # <<>>


\* the tools of the claim other than the one that ends the day
daytime_ops ==
    {"order_inventory", "send_payment", "stock_machine", "set_price",
     "send_supplier_email", "list_supplier_emails", "read_supplier_email"}

\* C33: ordering, paying a supplier, stocking the machine, setting a price,
\* sending an e-mail and reading the inbox leave current_day unchanged, a
\* call of wait_for_next_day increases current_day by exactly 1, the weekly
\* token charge made in its handling adds nothing to that, and no other step
\* changes current_day.
C33_TimeAdvance ==
    [][/\ (call'.op \in daytime_ops /\ message_count' = message_count + 1)
            => current_day' = current_day
       /\ (call'.op = "wait_for_next_day" /\ message_count' = message_count + 1)
            => /\ current_day' = current_day + 1
               /\ "token_charge" \in DOMAIN result' => current_day' = result'.tool.new_day
       /\ current_day' # current_day => call'.op = "wait_for_next_day"]_vars

\* the day that ends the first week was reached, with its token charge, after
\* an e-mail was sent
C33_Witness ==
    /\ call.op = "wait_for_next_day"
    /\ "token_charge" \in DOMAIN result
    /\ result.token_charge.charged
    /\ current_day = 7
    /\ next_email_id > 1


\* C34: for every configured number of days from 1 on and every interleaving
\* of orders, transfers and price changes, each call of wait_for_next_day
\* brings current_day one closer to the configured number, the call that
\* makes them equal sets is_complete, and is_complete holds in every state
\* whose current_day has reached the configured number: repeated calls
\* complete the run after at most configured_days of them.
C34_Termination ==
    /\ [](current_day >= config.simulation_days => is_complete)
    /\ [][(call'.op = "wait_for_next_day" /\ message_count' = message_count + 1)
            => /\ current_day' = current_day + 1
               /\ current_day' = config.simulation_days => is_complete']_vars

\* a run of more than one day was completed by its last night and not by
\* bankruptcy, after a transfer to the machine
C34_Witness ==
    /\ call.op = "wait_for_next_day"
    /\ config.simulation_days > 1
    /\ current_day = config.simulation_days
    /\ is_complete
    /\ consecutive_bankrupt_days = 0
    /\ \E i \in 1..Len(transaction_history) : transaction_history[i].transaction_type = "sale"


\* the entries are sale entries, then one fee entry, then spoilage entries
sales_fee_spoilage(entries) ==
    \E k \in 1..Len(entries) :
        /\ entries[k].transaction_type = "fee"
        /\ \A i \in 1..(k - 1) : entries[i].transaction_type = "sale"
        /\ \A i \in (k + 1)..Len(entries) : entries[i].transaction_type = "spoilage"

\* C35: in one wait_for_next_day the sales are resolved with the machine
\* stock, the prices and the day number from before the call (each sale entry
\* carries the old day, min(demand, old machine quantity) units and units x
\* old price), the fee and spoilage entries carry the new day, the lots
\* delivered in the call carry the new day and go to storage, so the machine
\* loses exactly the units sold from its old stock, the fee-affordability
\* test sees the cash with the night's revenue credited, and the entries of
\* the call are the sale entries, then the fee entry, then the spoilage
\* entries.
C35_StepOrder ==
    [][(call'.op = "wait_for_next_day" /\ message_count' = message_count + 1) =>
         LET revenue == amount_of(new_transactions, "sale")
         IN  /\ sales_fee_spoilage(new_transactions)
             /\ \A i \in 1..Len(new_transactions) :
                  LET t == new_transactions[i]
                  IN  IF t.transaction_type = "sale"
                      THEN /\ t.day = current_day
                           /\ t.quantity = Min(call'.demand[t.product], machine_inventory[t.product])
                           /\ t.amount = t.quantity * current_prices[t.product]
                      ELSE t.day = current_day + 1
             /\ \A p \in PRODUCTS :
                  /\ machine_inventory'[p]
                       = machine_inventory[p] - Min(call'.demand[p], machine_inventory[p])
                  /\ \A i \in 1..Len(storage_inventory'[p]) :
                       storage_inventory'[p][i].purchase_date <= current_day + 1
             /\ \A i \in 1..Len(result'.deliveries) :
                  \E j \in 1..Len(storage_inventory'[result'.deliveries[i].product]) :
                      /\ storage_inventory'[result'.deliveries[i].product][j].purchase_date
                           = current_day + 1
                      /\ storage_inventory'[result'.deliveries[i].product][j].quantity
                           = result'.deliveries[i].quantity
             /\ consecutive_bankrupt_days' =
                  IF cash_balance + revenue < config.daily_fee
                  THEN consecutive_bankrupt_days + 1 ELSE 0]_vars

\* one night had sales, a delivery, the fee and spoilage, and the fee was
\* affordable only with the night's revenue
C35_Witness ==
    /\ call.op = "wait_for_next_day"
    /\ result.overnight_sales.total_revenue > 0
    /\ Len(result.deliveries) > 0
    /\ \E p \in PRODUCTS : Len(result.spoiled_items[p]) > 0
    /\ cash_balance < result.overnight_sales.total_revenue
    /\ consecutive_bankrupt_days = 0


\* C36: after every step that increments current_day, the orchestrated step
\* of wait_for_next_day and the legacy advance_day alike, every order left in
\* the pending list has delivery_day > current_day.
C36_NoOverdueOrder ==
    [][current_day' = current_day + 1 =>
         \A i \in 1..Len(pending_orders') :
            pending_orders'[i].delivery_day > current_day']_vars


\* C37: a supplier payment never increases cash: after every accepted
\* send_payment the cash is lower than or equal to the cash before it, and an
\* amount that is zero or negative is rejected, the call changing nothing of
\* the cash, the transaction history, the pending orders and the storage.
C37_PaymentNeverIncreasesCash ==
    [][(call'.op = "send_payment" /\ message_count' = message_count + 1) =>
         /\ succeeded(result') => cash_balance' <= cash_balance
         /\ call'.amount <= 0 =>
              /\ ~succeeded(result')
              /\ UNCHANGED <<cash_balance, transaction_history, pending_orders,
                             storage_inventory>>]_vars


\* the used-slot counter of a size class
slots_used(size, small, large) == IF size = "small" THEN small ELSE large

\* C38: a successful stock_machine(product, q) decreases the product's total
\* storage quantity by exactly q, increases its machine quantity and the used
\* slots of its size class by exactly q, and leaves cash, prices, pending
\* orders, the transaction history and every other product's storage and
\* machine quantities unchanged.
C38_StockConservation ==
    [][(call'.op = "stock_machine" /\ message_count' = message_count + 1
        /\ succeeded(result')) =>
         LET product == call'.product
             q == call'.quantity
             size == PRODUCT_CATALOG[product].size
         IN  /\ q > 0
             /\ total_quantity(storage_inventory'[product])
                  = total_quantity(storage_inventory[product]) - q
             /\ machine_inventory'[product] = machine_inventory[product] + q
             /\ slots_used(size, machine_small_slots_used', machine_large_slots_used')
                  = slots_used(size, machine_small_slots_used, machine_large_slots_used) + q
             /\ UNCHANGED <<cash_balance, current_prices, pending_orders, transaction_history>>
             /\ \A other \in PRODUCTS \ {product} :
                  /\ storage_inventory'[other] = storage_inventory[other]
                  /\ machine_inventory'[other] = machine_inventory[other]]_vars

\* a second transfer of the same product succeeded: the machine holds the
\* units of both and storage has lost them
C38_Witness ==
    /\ call.op = "stock_machine"
    /\ succeeded(result)
    /\ machine_inventory[call.product] > call.quantity
    /\ total_quantity(storage_inventory[call.product])
         = StartUnits - machine_inventory[call.product]


\* the units of a product the sale entries among the entries sold
units_sold_in(entries, product) ==
    SumSeq([i \in 1..Len(entries) |->
              IF entries[i].transaction_type = "sale" /\ entries[i].product = product
              THEN entries[i].quantity ELSE 0], 1)

\* C39: units in the machine never expire: in every step the machine
\* quantity of a product falls only by the units the sale entries of that
\* step record, a day step changes it by nothing else, whatever lots spoil in
\* storage in the same step and however far current_day is beyond the
\* expiration day of the lot the units came from, and the spoilage entries of
\* a step account for storage lots only.
C39_MachineNeverExpires ==
    [][\A p \in PRODUCTS :
         /\ machine_inventory'[p] < machine_inventory[p] =>
              /\ call'.op = "wait_for_next_day"
              /\ machine_inventory[p] - machine_inventory'[p] = units_sold_in(new_transactions, p)
         /\ current_day' = current_day + 1 =>
              /\ machine_inventory'[p] = machine_inventory[p] - units_sold_in(new_transactions, p)
              /\ Len(spoilage_of(new_transactions, p))
                   = Len(expired(storage_inventory[p], current_day + 1))]_vars

\* the machine still holds coffee after day 7, the expiration day of the lot
\* it came from, and the rest of that lot has spoiled in storage
C39_Witness ==
    /\ current_day > PRODUCT_CATALOG["coffee"].spoilage_days
    /\ machine_inventory["coffee"] > 0
    /\ storage_inventory["coffee"] = <<>>
    /\ \E i \in 1..Len(transaction_history) :
         /\ transaction_history[i].transaction_type = "spoilage"
         /\ transaction_history[i].product = "coffee"

====
